---- MODULE Spec2Model ----
(***************************************************************************)
(* State-machine model of the Linguistics spell checker for Brackets:      *)
(*   DictionaryManager (src/unnamed/part_003), ProfileManager,             *)
(*   UtilityManager and SpellChecker                                       *)
(*   (src/stillat.linguistics/src/spelling/SpellChecker.js) and the string *)
(*   helpers of src/src/utils/Strings.js.                                  *)
(* JavaScript values: the strings "true", "false", "null" and "undefined"  *)
(* stand for the JS values of the same name wherever a field or a return   *)
(* value can hold more than a boolean.                                     *)
(***************************************************************************)
EXTENDS Integers, Sequences, FiniteSets, TLC

NULL == "null"
UNDEFINED == "undefined"

\* ------------------------------------------------------------------------
\* The world outside the program: names, files on disk, profile files.
\* ------------------------------------------------------------------------

\* Locale names with an affix and a word-list file in natural-languages/.
DictionaryFiles == {"en_US", "en_GB"}

\* The user-profile files on disk: profile name -> ordered items.
ProfileFiles ==
    [my_en |-> << [name |-> "en_US", type |-> "dictionary"],
                  [name |-> "en_GB", type |-> "dictionary"] >>,
     dev_en |-> << [name |-> "html", type |-> "utility"],
                   [name |-> "en_GB", type |-> "dictionary"] >>]

ProfileNames == DOMAIN ProfileFiles

\* Files of the user-profiles directory as the read callback finds them:
\* parses: JSON.parse(data) returns; hasItems: the object has an items
\* property; an item without a type has type UNDEFINED.
pf_my_en == [path |-> "my_en.json", parses |-> TRUE, profile |-> "my_en",
             hasItems |-> TRUE,
             items |-> << [name |-> "en_US", type |-> UNDEFINED],
                          [name |-> "en_GB", type |-> "dictionary"] >>]
pf_dev_en == [path |-> "dev_en.json", parses |-> TRUE, profile |-> "dev_en",
              hasItems |-> TRUE, items |-> ProfileFiles.dev_en]
pf_broken == [path |-> "broken.json", parses |-> FALSE, profile |-> "broken",
              hasItems |-> FALSE, items |-> << >>]
pf_noItems == [path |-> "noitems.json", parses |-> TRUE,
               profile |-> "no_items", hasItems |-> FALSE, items |-> << >>]
pf_empty == [path |-> "empty.json", parses |-> TRUE, profile |-> "empty_en",
             hasItems |-> TRUE, items |-> << >>]

UserProfileFiles == {pf_my_en, pf_dev_en, pf_broken, pf_noItems, pf_empty}

\* Every name a caller may pass as a locale name.
Names == DictionaryFiles \cup ProfileNames \cup {"html"}

Halves == {"affix", "dictionary"}

\* A file read ends with err === null (TRUE) or with an error (FALSE); a
\* name without dictionary files can only fail.
ReadOutcomes(localeName) ==
    IF localeName \in DictionaryFiles THEN {TRUE, FALSE} ELSE {FALSE}

\* FileSystem.getFileForPath hands back a File object for every path, so
\* _affixFile && _dictionaryFile is truthy.
getFileForPath == TRUE

\* Words are sequences of one-character strings.
w_the == << "t", "h", "e" >>
w_color == << "c", "o", "l", "o", "r" >>
w_colour == << "c", "o", "l", "o", "u", "r" >>
w_qucik == << "q", "u", "c", "i", "k" >>
w_alice == << "a", "l", "i", "c", "e" >>
w_nasa == << "n", "a", "s", "a" >>
w_NASA == << "N", "A", "S", "A" >>
w_PhD == << "P", "h", "D" >>
w_json == << "j", "s", "o", "n" >>
w_42 == << "4", "2" >>
w_3rd == << "3", "r", "d" >>
w_May == << "M", "a", "y" >>
w_theMay == w_the \o w_May
w_The == << "T", "h", "e" >>
w_quick == << "q", "u", "i", "c", "k" >>
w_fox == << "f", "o", "x" >>
w_foxx == << "f", "o", "x", "x" >>
w_MayApostrophe == w_May \o << "'" >>
w_PhDApostrophe == w_PhD \o << "'" >>
w_NASAApostrophe == w_NASA \o << "'" >>

\* The word list each dictionary file yields once parsed by Typo.
LexiconWords(localeName) ==
    CASE localeName = "en_US" ->
             {w_the, w_quick, w_fox, w_color, w_nasa, w_PhD, w_May}
      [] localeName = "en_GB" -> {w_the, w_quick, w_fox, w_colour}
      [] OTHER -> {}

\* The words handed to DictionaryManager.check by the API-level actions.
CheckWords == {w_the, w_color, w_colour, w_qucik}

\* The stream "The qucik foxx"
TheQucikFoxx == w_The \o << " " >> \o w_qucik \o << " " >> \o w_foxx

\* The stream "the qucik", the one line of a small document
TheQucik == w_the \o << " " >> \o w_qucik

\* The stream "the$", a line that ends with a separator
TheDollar == w_the \o << "$" >>

\* The lines of text CodeMirror hands to the overlay.
\* a line with a word between two double quotes
TheInDoubleQuotes == << "\"" >> \o w_the \o << "\"" >>

Lines ==
    { << "t", "h", "e", " ", "q", "u", "c", "i", "k" >>,
      << "$", "c", "o", "l", "o", "r", ",", " ", "a", "l", "i", "c", "e" >>,
      << "t", "h", "e", "C", "o", "l", "o", "u", "r" >>,
      << "'", "t", "h", "e", "'", " ", "N", "A", "S", "A", " ", "4", "2" >>,
      TheQucikFoxx, TheDollar, TheInDoubleQuotes }

\* word between two single quotes
Quoted(word) == << "'" >> \o word \o << "'" >>

\* word after one single quote, and word before one single quote
QuoteBefore(word) == << "'" >> \o word
QuoteAfter(word) == word \o << "'" >>

\* Lines of one word each, for the heuristics of _hasCorrectSpelling.
WordLines ==
    {w_json, w_42, w_3rd, w_NASA, w_nasa, Quoted(w_the), Quoted(w_PhD),
     w_theMay, w_PhD, w_MayApostrophe, w_PhDApostrophe, w_NASAApostrophe,
     QuoteBefore(w_theMay), QuoteAfter(w_theMay), Quoted(w_theMay)}

\* The utility files of the generic utilities directory, parsed.
u_typos == [ignore |-> << w_qucik >>]
u_after == [ignore |-> << w_color >>, ignoreAfter |-> << "$" >>]
u_html == [ignore |-> << w_colour >>, ignoreMode |-> << "html" >>,
           ignoreWhenDocumentContains |-> << << "<", "?" >> >>]
u_manual == [ignore |-> << w_the >>, ignoreMode |-> << "Mode.all" >>,
             mustBeManuallyLoaded |-> TRUE]
u_manualAfter == [ignore |-> << w_qucik >>, ignoreAfter |-> << "$" >>,
                  ignoreMode |-> << "Mode.all" >>,
                  mustBeManuallyLoaded |-> TRUE]

UtilityFiles == {u_typos, u_after, u_html, u_manual, u_manualAfter}

\* Utility files that are no ignore rule: text that is no JSON, and objects
\* without the ignore list, with and without a condition.
u_broken == [syntaxError |-> TRUE]
u_afterOnly == [ignoreAfter |-> << "$" >>]
u_modeOnly == [ignoreMode |-> << "Mode.all" >>]
u_noList == [name |-> "notes"]

MalformedUtilityFiles == {u_broken, u_afterOnly, u_modeOnly, u_noList}

\* The arguments the host and the scanner pass to the UtilityManager.
ModeNames == {"html", "null"}
DocumentContents == { << "<", "?", "p" >>, << "a" >> }
BeforeContexts == { << >>, << "$" >>, << " " >> }

\* Longest run of separators the scanner is let to collect.
MaxSeparatorRun == 2

\* ------------------------------------------------------------------------
\* Strings (src/src/utils/Strings.js and the String methods it relies on).
\* A string is a sequence of characters; a character is a one-character
\* string, except the three separators the module language cannot spell:
\* "U+0060" (grave accent), "U+220E" and "U+00AE".
\* ------------------------------------------------------------------------
LowerCaseLetters ==
    << "a", "b", "c", "d", "e", "f", "g", "h", "i", "j", "k", "l", "m",
       "n", "o", "p", "q", "r", "s", "t", "u", "v", "w", "x", "y", "z" >>

UpperCaseLetters ==
    << "A", "B", "C", "D", "E", "F", "G", "H", "I", "J", "K", "L", "M",
       "N", "O", "P", "Q", "R", "S", "T", "U", "V", "W", "X", "Y", "Z" >>

Digits == {"0", "1", "2", "3", "4", "5", "6", "7", "8", "9"}

\* \s of the characters a line of text can hold
WhiteSpace == {" ", "\t"}

IsLower(c) == \E i \in DOMAIN LowerCaseLetters : LowerCaseLetters[i] = c

IsUpper(c) == \E i \in DOMAIN UpperCaseLetters : UpperCaseLetters[i] = c

\* \w
IsWordChar(c) == IsLower(c) \/ IsUpper(c) \/ c \in Digits \/ c = "_"

toUpperCaseChar(c) ==
    IF IsLower(c)
    THEN UpperCaseLetters[CHOOSE i \in DOMAIN LowerCaseLetters :
                              LowerCaseLetters[i] = c]
    ELSE c

toLowerCaseChar(c) ==
    IF IsUpper(c)
    THEN LowerCaseLetters[CHOOSE i \in DOMAIN UpperCaseLetters :
                              UpperCaseLetters[i] = c]
    ELSE c

toUpperCase(str) == [i \in DOMAIN str |-> toUpperCaseChar(str[i])]

toLowerCase(str) == [i \in DOMAIN str |-> toLowerCaseChar(str[i])]

_wordSeparators ==
    << "!", "\"", "#", "$", "%", "&", "(", ")", "*", "+", ",", "-", ".",
       "/", ":", ";", "<", "=", ">", "?", "@", "[", "\\", "]", "^", "_",
       "U+0060", "{", "|", "}", "~", " ", "U+220E", "U+00AE" >>

\* str.indexOf(sub, pos), zero-based; -1 when sub does not occur from pos on
indexOf(str, sub, pos) ==
    LET hits == {i \in pos..(Len(str) - Len(sub)) :
                    SubSeq(str, i + 1, i + Len(sub)) = sub}
    IN IF hits = {} THEN -1
       ELSE CHOOSE i \in hits : \A j \in hits : i <= j

\* needle.toLowerCase() of contains(_wordSeparators, char)
LoweredSeparators == toLowerCase(_wordSeparators)

\* isWordSeparator(char) is contains(_wordSeparators, char): char is a
\* character of the stream, or UNDEFINED at the end of the line, where
\* isString fails and contains answers false.
isWordSeparator(char) ==
    IF char = UNDEFINED THEN FALSE
    ELSE indexOf(LoweredSeparators, << char >>, 0) # -1

startsWith(str, prefix) ==
    Len(prefix) <= Len(str) /\ SubSeq(str, 1, Len(prefix)) = prefix

endsWith(str, suffix) ==
    /\ Len(suffix) <= Len(str)
    /\ SubSeq(str, Len(str) - Len(suffix) + 1, Len(str)) = suffix

\* str.substr(start, length), start zero-based
substr(str, start, length) ==
    LET to == IF start + length > Len(str) THEN Len(str) ELSE start + length
    IN SubSeq(str, start + 1, to)

\* The escaping replace of trimChar is given a string pattern that occurs in
\* no character, so the character is used as it is: ^char+ and char+$ go.
trimChar(string, char) ==
    LET ch == IF char = "" THEN " " ELSE char
        keep == {i \in DOMAIN string : string[i] # ch}
        from == IF keep = {} THEN Len(string) + 1
                ELSE CHOOSE i \in keep : \A j \in keep : i <= j
        upto == IF keep = {} THEN Len(string)
                ELSE CHOOSE i \in keep : \A j \in keep : j <= i
    IN SubSeq(string, from, upto)

\* The while loop of occurrences from position pos with n hits so far.
RECURSIVE occurrencesFrom(_, _, _, _, _)
occurrencesFrom(string, subString, step, pos, n) ==
    LET at == indexOf(string, subString, pos)
    IN IF at >= 0
       THEN occurrencesFrom(string, subString, step, at + step, n + 1)
       ELSE n

occurrences(string, subString, allowOverlapping) ==
    IF Len(subString) <= 0 THEN Len(string) + 1
    ELSE occurrencesFrom(string, subString,
                         IF allowOverlapping THEN 1 ELSE Len(subString), 0, 0)

\* Number(match) === 0 for a match of the pattern of toCamelCase: a run of
\* white space, or the numeral zero.
IsZero(match) ==
    (\A i \in DOMAIN match : match[i] \in WhiteSpace) \/ match = << "0" >>

\* First position from i on that holds no white space (one-based).
EndOfWhiteSpace(string, i) ==
    LET stops == {j \in i..Len(string) : string[j] \notin WhiteSpace}
    IN IF stops = {} THEN Len(string) + 1
       ELSE CHOOSE j \in stops : \A k \in stops : j <= k

\* string.replace(/(?:^\w|[A-Z]|\b\w|\s+)/g, ...) from the one-based
\* position i on: a match is dropped when it is zero, lowered at index 0
\* and raised elsewhere; what matches nothing is copied.
RECURSIVE toCamelCaseFrom(_, _)
toCamelCaseFrom(string, i) ==
    IF i > Len(string) THEN << >>
    ELSE LET c == string[i]
             atStart == i = 1 /\ IsWordChar(c)
             capital == IsUpper(c)
             atBoundary == IsWordChar(c)
                           /\ (i = 1 \/ ~IsWordChar(string[i - 1]))
         IN IF atStart \/ capital \/ atBoundary
            THEN (IF IsZero(<< c >>) THEN << >>
                  ELSE IF i = 1 THEN << toLowerCaseChar(c) >>
                  ELSE << toUpperCaseChar(c) >>)
                 \o toCamelCaseFrom(string, i + 1)
            ELSE IF c \in WhiteSpace
                 THEN toCamelCaseFrom(string, EndOfWhiteSpace(string, i))
                 ELSE << c >> \o toCamelCaseFrom(string, i + 1)

toCamelCase(string) == toCamelCaseFrom(string, 1)

\* The forEach of isCamelCase that builds _tempString.
RECURSIVE _tempString(_, _)
_tempString(string, i) ==
    IF i > Len(string) THEN << >>
    ELSE (IF toUpperCaseChar(string[i]) = string[i]
          THEN << " ", toLowerCaseChar(string[i]) >>
          ELSE << string[i] >>)
         \o _tempString(string, i + 1)

isCamelCase(string) ==
    LET temp == _tempString(string, 1)
        _numberOfSpaces == occurrences(temp, << " " >>, FALSE)
    IN IF _numberOfSpaces = 0 THEN FALSE
       ELSE toCamelCase(temp) = string

\* string.split(/(?=[A-Z])/) from position i on, part being the piece
\* collected so far.
RECURSIVE splitFrom(_, _, _)
splitFrom(string, i, part) ==
    IF i > Len(string) THEN << part >>
    ELSE IF IsUpper(string[i]) /\ i > 1
         THEN << part >> \o splitFrom(string, i + 1, << string[i] >>)
         ELSE splitFrom(string, i + 1, Append(part, string[i]))

splitByUpperCase(string) == splitFrom(string, 1, << >>)

\* isNaN(parseFloat(word)): parseFloat skips leading white space and reads
\* the longest decimal literal the rest starts with.
isNaNparseFloat(word) ==
    LET rest == SubSeq(word, EndOfWhiteSpace(word, 1), Len(word))
        unsigned == IF rest # << >> /\ rest[1] \in {"+", "-"}
                    THEN Tail(rest) ELSE rest
    IN ~ \/ startsWith(unsigned, << "I", "n", "f", "i", "n", "i", "t", "y" >>)
         \/ unsigned # << >> /\ unsigned[1] \in Digits
         \/ Len(unsigned) >= 2 /\ unsigned[1] = "." /\ unsigned[2] \in Digits

\* ------------------------------------------------------------------------
\* State
\* ------------------------------------------------------------------------
VARIABLES
    _dictionaries,            \* DictionaryManager: object, keys -> entries
    _dictionariesBeingLoaded, \* DictionaryManager: set of locale names
    _defaultLocale,           \* DictionaryManager
    _availableProfiles,       \* ProfileManager: profile name -> items
    pm_initialized,           \* ProfileManager._initialized
    _profile,                 \* ProfileManager: profile file -> its deferred
    userProfiles,             \* ProfileManager: the profiles collected so far
    profileReads,             \* profile files whose read is in flight
    _localeName,              \* SpellChecker
    _initialized,             \* SpellChecker._initialized (the gate)
    pendingReads,             \* file reads in flight: <<locale, half>> -> count
    gen,                      \* history of the latest load of each locale
    last,                     \* what the last operation did (call, result, events)
    _spellingIgnoreUppercase, \* SpellChecker
    _lastWordSeparator,       \* SpellChecker: the separators since the last word
    _lastWordSeparatorDirty,  \* SpellChecker
    stream,                   \* the StringStream of the scan in progress
    _alwaysIgnoreFiles,       \* UtilityManager: array of utility data
    _alwaysIgnoreCachedList,  \* UtilityManager: array of words
    _ignoreOnlyWithCondition, \* UtilityManager: array of utility data
    _currentModeName,         \* UtilityManager
    _currentDocumentContents, \* UtilityManager: [isNull, text]
    utilityReads              \* utility files whose read is in flight

profileLoadVars == << _profile, userProfiles, profileReads >>

checkerVars == << _spellingIgnoreUppercase, _lastWordSeparator,
                  _lastWordSeparatorDirty >>

utilityVars == << _alwaysIgnoreFiles, _alwaysIgnoreCachedList,
                  _ignoreOnlyWithCondition, _currentModeName,
                  _currentDocumentContents, utilityReads >>

vars == << _dictionaries, _dictionariesBeingLoaded, _defaultLocale,
           _availableProfiles, pm_initialized, profileLoadVars, _localeName,
           _initialized, pendingReads, gen, last, checkerVars, stream,
           utilityVars >>

\* No scan in progress: CodeMirror hands token() a new stream per line and
\* calls it until the line (or the part it needs) is done, within one turn
\* of the event loop; any other handler runs between two scans.
NoStream == [string |-> << >>, pos |-> 0, carried |-> << >>]

\* History of one load. affix, dictionary: how the read callback of that
\* half ended: "pending", "ok" (read succeeded, callback returned), "err"
\* (read failed, callback returned), "threw" (the callback raised), and
\* "none" before any load. typo: Typo constructions; loaded, failed:
\* notifications; reads: file reads started; reloaded: a caller of the API
\* called loadDictionary again while the locale was being loaded.
NoLoad == [affix |-> "none", dictionary |-> "none", typo |-> 0,
           loaded |-> 0, failed |-> 0, reads |-> 0, reloaded |-> FALSE]

NewLoad == [affix |-> "pending", dictionary |-> "pending", typo |-> 0,
            loaded |-> 0, failed |-> 0, reads |-> 0, reloaded |-> FALSE]

\* ------------------------------------------------------------------------
\* The mutable state threaded through a handler, and its effects.
\*   d: _dictionaries, bl: _dictionariesBeingLoaded, init: the gate,
\*   rd: pendingReads, gen, out: notifications triggered so far,
\*   threw: an exception escaped, consulted: lexicons asked, in order,
\*   loadCalls: arguments of the loadDictionary calls made, in order,
\*   started: the locales whose load was started, in order,
\*   checked: the << word, result >> of the DictionaryManager.check calls
\*   the SpellChecker made, ignored: the << word, beforeContext, result >>
\*   of its UtilityManager.shouldIgnore calls, in order, word: the word
\*   token() cut out of the stream, verdict: what _hasCorrectSpelling
\*   answered for it, seen: the registry as each notification's listeners
\*   found it.
\* ------------------------------------------------------------------------
Cur == [d |-> _dictionaries, bl |-> _dictionariesBeingLoaded,
        init |-> _initialized, rd |-> pendingReads, gen |-> gen,
        out |-> << >>, threw |-> FALSE, consulted |-> << >>,
        loadCalls |-> << >>, started |-> << >>, checked |-> << >>,
        ignored |-> << >>, word |-> << >>,
        verdict |-> UNDEFINED, seen |-> << >>]

\* delete obj[key]
Delete(obj, key) == [k \in (DOMAIN obj) \ {key} |-> obj[k]]

\* obj[key] = value, creating the key when absent
Put(obj, key, value) ==
    [k \in (DOMAIN obj) \cup {key} |-> IF k = key THEN value ELSE obj[k]]

hasDictionariesLoaded(d) == Cardinality(DOMAIN d) > 0

\* What a listener of the event finds in the registry when it runs.
Seen(s, event, localeName) ==
    [event |-> event, localeName |-> localeName,
     entry |-> localeName \in DOMAIN s.d,
     initialized |-> localeName \in DOMAIN s.d /\ s.d[localeName].initialized,
     beingLoaded |-> localeName \in s.bl,
     entries |-> Cardinality(DOMAIN s.d)]

\* exports.trigger(event, localeName): the SpellChecker listeners run
\* synchronously, then the event is on record.
trigger(s, event, localeName) ==
    LET init2 == CASE event = "dictionariesUnloaded" -> FALSE
                   [] event = "dictionaryUnloaded" -> hasDictionariesLoaded(s.d)
                   [] event = "dictionaryLoaded" -> TRUE
                   [] OTHER -> s.init
        gen2 == CASE event = "dictionaryLoaded" ->
                       [s.gen EXCEPT ![localeName].loaded = @ + 1]
                  [] event = "dictionaryFailedToLoad" ->
                       [s.gen EXCEPT ![localeName].failed = @ + 1]
                  [] OTHER -> s.gen
    IN [s EXCEPT !.init = init2, !.gen = gen2,
                 !.out = Append(@, << event, localeName >>),
                 !.seen = Append(@, Seen(s, event, localeName))]

\* Variant of unloadDictionary that drops the whole registry.
M_unloadDictionaryDropsAll(s, localeName) ==
    trigger([s EXCEPT !.d = << >>],
            "dictionaryUnloaded", localeName)

unloadDictionary(s, localeName) ==
    trigger([s EXCEPT !.d = Delete(@, localeName)],
            "dictionaryUnloaded", localeName)

unloadAllDictionaries(s) ==
    trigger([s EXCEPT !.d = << >>],
            "dictionariesUnloaded", UNDEFINED)

\* new Typo(localeName, affixData, dictionaryData): the handle is the
\* locale whose data it was built from.
Typo(localeName, affixData, dictionaryData) == localeName

\* typo.check(word): the word as it stands, the capitalised form of a word
\* in capitals, or the word with its first letter in lower case.
TypoCheck(typo, word) ==
    \/ word \in LexiconWords(typo)
    \/ /\ word # << >>
       /\ word = toUpperCase(word)
       /\ << word[1] >> \o toLowerCase(Tail(word)) \in LexiconWords(typo)
    \/ /\ word # << >>
       /\ << toLowerCaseChar(word[1]) >> \o Tail(word) \in LexiconWords(typo)

\* typo.suggest(word): an array of suggestions
TypoSuggest(typo, word) == "array"

\* Mutant: the Typo instance is built when either half has loaded.
M_performTypoOnEitherHalf(s, localeName) ==
    IF s.d[localeName].affixLoaded = "true"
       \/ s.d[localeName].dictionaryLoaded = "true"
    THEN LET e == s.d[localeName]
             s1 == [s EXCEPT
                      !.d[localeName].typo =
                          Typo(localeName, e.affixData, e.dictionaryData),
                      !.d[localeName].initialized = TRUE,
                      !.bl = @ \ {localeName},
                      !.gen[localeName].typo = @ + 1]
         IN trigger(s1, "dictionaryLoaded", localeName)
    ELSE s

\* Variant that marks the entry initialized without building the Typo
\* instance.
M_performTypoWithoutHandle(s, localeName) ==
    IF s.d[localeName].affixLoaded = "true"
       /\ s.d[localeName].dictionaryLoaded = "true"
    THEN LET s1 == [s EXCEPT
                      !.d[localeName].initialized = TRUE,
                      !.bl = @ \ {localeName},
                      !.gen[localeName].typo = @ + 1]
         IN trigger(s1, "dictionaryLoaded", localeName)
    ELSE s

_performTypoInitializationOnLocale(s, localeName) ==
    IF s.d[localeName].affixLoaded = "true"
       /\ s.d[localeName].dictionaryLoaded = "true"
    THEN LET e == s.d[localeName]
             s1 == [s EXCEPT
                      !.d[localeName].typo =
                          Typo(localeName, e.affixData, e.dictionaryData),
                      !.d[localeName].initialized = TRUE,
                      !.bl = @ \ {localeName},
                      !.gen[localeName].typo = @ + 1]
         IN trigger(s1, "dictionaryLoaded", localeName)
    ELSE s

_checkDictionaryForCleanUp(s, localeName) ==
    IF s.d[localeName].affixLoaded = NULL
       /\ s.d[localeName].dictionaryLoaded = NULL
    THEN LET s1 == unloadDictionary(s, localeName)
             s2 == [s1 EXCEPT !.bl = @ \ {localeName}]
         IN trigger(s2, "dictionaryFailedToLoad", localeName)
    ELSE s

\* The callback of affixFile.read. With no entry for the locale the first
\* statement of either branch dereferences undefined and throws.
affixReadCallback(s, localeName, ok) ==
    LET s0 == [s EXCEPT !.gen[localeName].affix = IF ok THEN "ok" ELSE "err"]
    IN IF localeName \notin DOMAIN s.d
       THEN [s EXCEPT !.threw = TRUE, !.gen[localeName].affix = "threw"]
       ELSE IF ok
            THEN _performTypoInitializationOnLocale(
                     [s0 EXCEPT !.d[localeName].affixData = "data",
                                !.d[localeName].affixLoaded = "true"],
                     localeName)
            ELSE _checkDictionaryForCleanUp(
                     [s0 EXCEPT !.d[localeName].affixLoaded = NULL],
                     localeName)

\* The callback of dictionaryFile.read.
dictionaryReadCallback(s, localeName, ok) ==
    LET s0 == [s EXCEPT !.gen[localeName].dictionary = IF ok THEN "ok" ELSE "err"]
    IN IF localeName \notin DOMAIN s.d
       THEN [s EXCEPT !.threw = TRUE, !.gen[localeName].dictionary = "threw"]
       ELSE IF ok
            THEN _performTypoInitializationOnLocale(
                     [s0 EXCEPT !.d[localeName].dictionaryData = "data",
                                !.d[localeName].dictionaryLoaded = "true"],
                     localeName)
            ELSE _checkDictionaryForCleanUp(
                     [s0 EXCEPT !.d[localeName].dictionaryLoaded = NULL],
                     localeName)

\* Starts the two reads; the callbacks run later, in either order.
_initializeDictionaryData(s, localeName) ==
    [s EXCEPT !.rd[<< localeName, "affix" >>] = @ + 1,
              !.rd[<< localeName, "dictionary" >>] = @ + 1,
              !.gen[localeName].reads = @ + 2]

hasDictionary(d, localeName, safeMode) ==
    IF localeName \notin DOMAIN d THEN FALSE
    ELSE IF ~safeMode THEN TRUE
    ELSE d[localeName].initialized

NewEntry(localeName) ==
    [initialized |-> FALSE, dictionaryLoaded |-> "false",
     affixLoaded |-> "false", affixData |-> NULL, dictionaryData |-> NULL,
     typo |-> NULL, locale |-> localeName]

_loadDictionaryFilesForLocale(s, localeName, haveFiles) ==
    LET s1 == [s EXCEPT !.d = Put(@, localeName, NewEntry(localeName)),
                        !.gen[localeName] = NewLoad,
                        !.started = Append(@, localeName)]
    IN IF haveFiles
       THEN _initializeDictionaryData(
                [s1 EXCEPT !.bl = @ \cup {localeName}], localeName)
       ELSE unloadDictionary(s1, localeName)

hasProfile(profileName) == profileName \in DOMAIN _availableProfiles

\* The result is null (isNull) or the profile's items.
getProfileItems(profileName) ==
    IF pm_initialized /\ hasProfile(profileName)
    THEN [isNull |-> FALSE, items |-> _availableProfiles[profileName]]
    ELSE [isNull |-> TRUE, items |-> << >>]

\* Mutant: no look at _dictionariesBeingLoaded.
M_loadDictionaryNoLoadingGuard(s, localeName) ==
    LET s1 == [s EXCEPT !.loadCalls = Append(@, localeName)]
    IN IF localeName = NULL \/ hasProfile(localeName)
          \/ hasDictionary(s.d, localeName, FALSE)
       THEN s1
       ELSE _loadDictionaryFilesForLocale(s1, localeName, getFileForPath)

\* Mutant: no look at the profile names.
M_loadDictionaryNoProfileGuard(s, localeName) ==
    LET s1 == [s EXCEPT !.loadCalls = Append(@, localeName)]
    IN IF localeName \in s.bl THEN s1
       ELSE IF localeName = NULL \/ hasDictionary(s.d, localeName, FALSE)
            THEN s1
            ELSE _loadDictionaryFilesForLocale(s1, localeName, getFileForPath)

loadDictionary(s, localeName) ==
    LET s1 == [s EXCEPT !.loadCalls = Append(@, localeName)]
    IN IF localeName \in s.bl THEN s1
       ELSE IF localeName = NULL \/ hasProfile(localeName)
               \/ hasDictionary(s.d, localeName, FALSE)
            THEN s1
            ELSE _loadDictionaryFilesForLocale(s1, localeName, getFileForPath)

Bool(b) == IF b THEN "true" ELSE "false"

\* _dictionaries[name].typo.check(word), on record in consulted.
consult(s, name, word) ==
    [ret |-> Bool(TypoCheck(s.d[name].typo, word)),
     s |-> [s EXCEPT !.consulted = Append(@, name)]]

\* Mutant: the first Ready item's answer is the result.
RECURSIVE M_checkProfileItemsFirstReadyDecides(_, _, _, _)
M_checkProfileItemsFirstReadyDecides(s, items, i, word) ==
    IF i > Len(items) THEN [ret |-> "false", s |-> s]
    ELSE LET _profileName == items[i].name
         IN IF hasDictionary(s.d, _profileName, TRUE)
            THEN consult(s, _profileName, word)
            ELSE M_checkProfileItemsFirstReadyDecides(
                     loadDictionary(s, _profileName), items, i + 1, word)

\* Mutant: the loop runs to the end of the items before it answers.
RECURSIVE M_checkProfileItemsNoShortCircuit(_, _, _, _)
M_checkProfileItemsNoShortCircuit(s, items, i, word) ==
    IF i > Len(items) THEN [ret |-> "false", s |-> s]
    ELSE LET _profileName == items[i].name
         IN IF hasDictionary(s.d, _profileName, TRUE)
            THEN LET c == consult(s, _profileName, word)
                     r == M_checkProfileItemsNoShortCircuit(
                              c.s, items, i + 1, word)
                 IN IF c.ret = "true" THEN [r EXCEPT !.ret = "true"] ELSE r
            ELSE M_checkProfileItemsNoShortCircuit(
                     loadDictionary(s, _profileName), items, i + 1, word)

\* Mutant: with no lexicon consulted the answer is null.
RECURSIVE M_checkProfileItemsNullWhenNoneReady(_, _, _, _)
M_checkProfileItemsNullWhenNoneReady(s, items, i, word) ==
    IF i > Len(items)
    THEN [ret |-> IF s.consulted = << >> THEN NULL ELSE "false", s |-> s]
    ELSE LET _profileName == items[i].name
         IN IF hasDictionary(s.d, _profileName, TRUE)
            THEN LET c == consult(s, _profileName, word)
                 IN IF c.ret = "true" THEN c
                    ELSE M_checkProfileItemsNullWhenNoneReady(
                             c.s, items, i + 1, word)
            ELSE M_checkProfileItemsNullWhenNoneReady(
                     loadDictionary(s, _profileName), items, i + 1, word)

\* The for loop of check over _profileItems, from index i on.
RECURSIVE checkProfileItems(_, _, _, _)
checkProfileItems(s, items, i, word) ==
    IF i > Len(items) THEN [ret |-> "false", s |-> s]
    ELSE LET _profileName == items[i].name
         IN IF hasDictionary(s.d, _profileName, TRUE)
            THEN LET c == consult(s, _profileName, word)
                 IN IF c.ret = "true" THEN c
                    ELSE checkProfileItems(c.s, items, i + 1, word)
            ELSE checkProfileItems(loadDictionary(s, _profileName),
                                   items, i + 1, word)

\* check(word, localeName); localeName = UNDEFINED when the caller omits
\* it. The result is "true", "false" or "null".
check(s, word, localeName) ==
    LET loc == IF localeName = UNDEFINED THEN _defaultLocale ELSE localeName
        _profileItems == getProfileItems(loc)
    IN IF hasProfile(loc) /\ ~_profileItems.isNull
       THEN checkProfileItems(s, _profileItems.items, 1, word)
       ELSE IF hasDictionary(s.d, loc, TRUE)
            THEN consult(s, loc, word)
            ELSE [ret |-> NULL, s |-> s]

\* suggest(word, localeName); a falsy localeName stands for the default
\* locale. hasDictionary is asked without safeMode, so an entry that is
\* still loading passes and .suggest is called on its null typo, which
\* throws. The result is an array, null, or nothing when it throws.
suggest(s, word, localeName) ==
    LET loc == IF localeName \in {UNDEFINED, NULL} THEN _defaultLocale
               ELSE localeName
    IN IF hasDictionary(s.d, loc, FALSE)
       THEN IF s.d[loc].typo = NULL
            THEN [ret |-> UNDEFINED, s |-> [s EXCEPT !.threw = TRUE]]
            ELSE [ret |-> TypoSuggest(s.d[loc].typo, word),
                  s |-> [s EXCEPT !.consulted = Append(@, loc)]]
       ELSE [ret |-> NULL, s |-> s]

\* ------------------------------------------------------------------------
\* UtilityManager (SpellChecker.js, lines 641-880). Utility data is the
\* object a utility file parses to: a function from its keys to values.
\* ------------------------------------------------------------------------

\* array.indexOf(item) > -1
Has(array, item) == \E i \in DOMAIN array : array[i] = item

hasOwnProperty(obj, key) == key \in DOMAIN obj

\* array.concat(items): a new array; the receiver stays as it is.
concat(array, items) == array \o items

_validConditionProperties ==
    << "ignoreAfter", "ignoreMode", "ignoreWhenDocumentContains" >>

_containsCondition(data) ==
    \E i \in DOMAIN _validConditionProperties :
        LET conditionName == _validConditionProperties[i]
        IN hasOwnProperty(data, conditionName) /\ Len(data[conditionName]) > 0

\* The three arrays of the UtilityManager as one value.
CurUtility == [files |-> _alwaysIgnoreFiles,
               cached |-> _alwaysIgnoreCachedList,
               cond |-> _ignoreOnlyWithCondition]

\* Whether JSON.parse(data) returns; it throws a SyntaxError otherwise.
JSONparses(data) == ~hasOwnProperty(data, "syntaxError")

\* _loadUtilityFile(err, data): the value of the concat call is dropped.
\* When JSON.parse throws, nothing has been pushed.
_loadUtilityFile(u, err, utilityData) ==
    IF err THEN u
    ELSE IF ~JSONparses(utilityData) THEN u
    ELSE IF ~_containsCondition(utilityData)
         THEN LET dropped == concat(u.cached, utilityData.ignore)
              IN [u EXCEPT !.files = Append(@, utilityData)]
         ELSE [u EXCEPT !.cond = Append(@, utilityData)]

_isValidMode(ignoreList) ==
    \/ Has(ignoreList.ignoreMode, "Mode.all")
    \/ Has(ignoreList.ignoreMode, _currentModeName)
    \/ (_currentModeName = NULL /\ Has(ignoreList.ignoreMode, "Mode.all"))

\* Variant of _utilityMustBeLoadedManually that takes no rule as manual.
M_utilityNeverManual(ignoreList) == FALSE

_utilityMustBeLoadedManually(ignoreList) ==
    /\ hasOwnProperty(ignoreList, "mustBeManuallyLoaded")
    /\ ignoreList.mustBeManuallyLoaded = TRUE

\* ignoreList.ignore.indexOf(word) > -1 where the list has the property;
\* where it has not, the expression throws (ruleThrows).
inIgnore(ignoreList, word) ==
    hasOwnProperty(ignoreList, "ignore") /\ Has(ignoreList.ignore, word)

\* "true" or null
_checkIgnoreAfter(ignoreList, beforeContext, word) ==
    IF /\ hasOwnProperty(ignoreList, "ignoreAfter")
       /\ Len(ignoreList.ignoreAfter) > 0
       /\ ignoreList.ignoreAfter = beforeContext
       /\ inIgnore(ignoreList, word)
    THEN "true" ELSE NULL

\* "true" or null
_shouldWordBeIgnoredBasedOnDocumentContents(ignoreList, word) ==
    IF /\ hasOwnProperty(ignoreList, "ignoreWhenDocumentContains")
       /\ Len(ignoreList.ignoreWhenDocumentContains) > 0
       /\ ~_currentDocumentContents.isNull
       /\ \E i \in DOMAIN ignoreList.ignoreWhenDocumentContains :
             /\ indexOf(_currentDocumentContents.text,
                        ignoreList.ignoreWhenDocumentContains[i], 0) > -1
             /\ inIgnore(ignoreList, word)
    THEN "true" ELSE NULL

\* The body of the for loop of _shouldWordBeIgnoredWithContext returns
\* true for the rule.
ruleIgnores(ignoreList, word, beforeContext) ==
    \/ _checkIgnoreAfter(ignoreList, beforeContext, word) # NULL
    \/ /\ hasOwnProperty(ignoreList, "ignoreMode")
       /\ Len(ignoreList.ignoreMode) > 0
       /\ _isValidMode(ignoreList)
       /\ ~_utilityMustBeLoadedManually(ignoreList)
       /\ \/ _checkIgnoreAfter(ignoreList, beforeContext, word) # NULL
          \/ _shouldWordBeIgnoredBasedOnDocumentContents(
                 ignoreList, word) # NULL
          \/ inIgnore(ignoreList, word)

\* The body of the for loop throws for the rule: the rule has no ignore
\* property and the body gets to ignoreList.ignore.indexOf, in
\* _checkIgnoreAfter when ignoreAfter === beforeContext, or in the mode
\* leg (after a document match, or else in the test on the mode alone).
ruleThrows(ignoreList, word, beforeContext) ==
    /\ ~hasOwnProperty(ignoreList, "ignore")
    /\ \/ /\ hasOwnProperty(ignoreList, "ignoreAfter")
          /\ Len(ignoreList.ignoreAfter) > 0
          /\ ignoreList.ignoreAfter = beforeContext
       \/ /\ hasOwnProperty(ignoreList, "ignoreMode")
          /\ Len(ignoreList.ignoreMode) > 0
          /\ _isValidMode(ignoreList)
          /\ ~_utilityMustBeLoadedManually(ignoreList)

\* The for loop of _shouldWordBeIgnoredWithContext from index i on.
RECURSIVE _shouldWordBeIgnoredWithContext(_, _, _)
_shouldWordBeIgnoredWithContext(word, beforeContext, i) ==
    IF i > Len(_ignoreOnlyWithCondition) THEN FALSE
    ELSE IF ruleIgnores(_ignoreOnlyWithCondition[i], word, beforeContext)
         THEN TRUE
         ELSE _shouldWordBeIgnoredWithContext(word, beforeContext, i + 1)

\* Whether the for loop from index i on ends with an exception.
RECURSIVE throwsWithContext(_, _, _)
throwsWithContext(word, beforeContext, i) ==
    IF i > Len(_ignoreOnlyWithCondition) THEN FALSE
    ELSE IF ruleThrows(_ignoreOnlyWithCondition[i], word, beforeContext)
         THEN TRUE
         ELSE IF ruleIgnores(_ignoreOnlyWithCondition[i], word,
                             beforeContext)
              THEN FALSE
              ELSE throwsWithContext(word, beforeContext, i + 1)

\* Variant of shouldIgnore without the test for an empty beforeContext.
M_shouldIgnoreNoContextTest(word, beforeContext) ==
    IF Has(_alwaysIgnoreCachedList, word) THEN TRUE
    ELSE _shouldWordBeIgnoredWithContext(word, beforeContext, 1)

\* shouldIgnore(word, null): the cached list, then beforeContext === null
shouldIgnoreNull(word) ==
    IF Has(_alwaysIgnoreCachedList, word) THEN TRUE
    ELSE FALSE

\* Whether shouldIgnore(word, beforeContext) ends with an exception.
shouldIgnoreThrows(word, beforeContext) ==
    /\ ~Has(_alwaysIgnoreCachedList, word)
    /\ Len(beforeContext) > 0
    /\ throwsWithContext(word, beforeContext, 1)

\* shouldIgnore(word, beforeContext), beforeContext a string
shouldIgnore(word, beforeContext) ==
    IF Has(_alwaysIgnoreCachedList, word) THEN TRUE
    ELSE IF Len(beforeContext) = 0 THEN FALSE
    ELSE _shouldWordBeIgnoredWithContext(word, beforeContext, 1)

\* ------------------------------------------------------------------------
\* SpellChecker (SpellChecker.js, lines 30-387)
\* ------------------------------------------------------------------------
_commonProgrammingKeywords ==
    << << "f", "o", "r", "e", "a", "c", "h" >>, << "j", "s", "o", "n" >>,
       << "a", "f", "f" >>, << "d", "i", "c" >>, << "u", "r", "l" >>,
       << "s", "r", "c" >> >>

_isCommonTerm(word) == Has(_commonProgrammingKeywords, word)

\* The answer c of DictionaryManager.check(word), put on record.
checked(c, word) ==
    [ret |-> c.ret,
     s |-> [c.s EXCEPT !.checked = Append(@, << word, c.ret >>)]]

\* DictionaryManager.check(word) as the SpellChecker calls it.
checkWord(s, word) == checked(check(s, word, UNDEFINED), word)

\* The for loop of _checkSpellingOfCamelCaseWord from part i on;
\* afterPart is the loop body once the check of part i has answered c.
RECURSIVE checkWordParts(_, _, _)
RECURSIVE afterPart(_, _, _)
afterPart(c, _wordParts, i) ==
    IF c.ret # "true" THEN [ret |-> "false", s |-> c.s]
    ELSE checkWordParts(c.s, _wordParts, i + 1)

checkWordParts(s, _wordParts, i) ==
    IF i > Len(_wordParts) THEN [ret |-> "true", s |-> s]
    ELSE afterPart(checkWord(s, _wordParts[i]), _wordParts, i)

\* Variant of _checkSpellingOfCamelCaseWord that checks the first part only.
M_checkSpellingOfFirstPart(s, word) ==
    checkWordParts(s, << splitByUpperCase(word)[1] >>, 1)

_checkSpellingOfCamelCaseWord(s, word) ==
    checkWordParts(s, splitByUpperCase(word), 1)

\* The two closing tests of _checkSpellingBetweenCharacter on
\* _seemsCorrect: "false", "-1" or "true".
seemsCorrect(_seemsCorrect) ==
    [ret |-> CASE _seemsCorrect.ret = "false" -> "false"
               [] _seemsCorrect.ret = "true" -> "-1"
               [] OTHER -> "true",
     s |-> _seemsCorrect.s]

\* Variant of _checkSpellingBetweenCharacter that checks a camel-case
\* remainder by its parts in every leg.
M_checkSpellingBetweenCharacterByParts(s, word, character) ==
    seemsCorrect(
        LET _baseWord ==
                IF startsWith(word, << character >>)
                   /\ endsWith(word, << character >>)
                THEN trimChar(word, character)
                ELSE IF endsWith(word, << character >>)
                     THEN substr(word, 0, Len(word) - 1)
                     ELSE substr(word, 1, Len(word) - 1)
        IN IF isCamelCase(_baseWord)
           THEN _checkSpellingOfCamelCaseWord(s, _baseWord)
           ELSE checkWord(s, _baseWord))

\* The result is "true", "false" or "-1".
_checkSpellingBetweenCharacter(s, word, character) ==
    seemsCorrect(
        IF startsWith(word, << character >>)
           /\ endsWith(word, << character >>)
        THEN IF isCamelCase(trimChar(word, character))
             THEN _checkSpellingOfCamelCaseWord(s, trimChar(word, character))
             ELSE checkWord(s, trimChar(word, character))
        ELSE IF endsWith(word, << character >>)
             THEN checkWord(s, substr(word, 0, Len(word) - 1))
             ELSE IF startsWith(word, << character >>)
                  THEN checkWord(s, substr(word, 1, Len(word) - 1))
                  ELSE [ret |-> NULL, s |-> s])

\* _quotesSeemCorrect and _doubleQuotesSeemCorrect of _hasCorrectSpelling
quotesSeemCorrect(s, word, character) ==
    IF startsWith(word, << character >>) \/ endsWith(word, << character >>)
    THEN _checkSpellingBetweenCharacter(s, word, character)
    ELSE [ret |-> "true", s |-> s]

\* _hasCorrectSpelling from the tests on the two quote results on (lines
\* 261-281): the camel-case heuristic and the final check.
afterQuotes(_quotes, _doubleQuotes, word) ==
    IF _quotes.ret = "-1" \/ _doubleQuotes.ret = "-1"
    THEN [ret |-> "true", s |-> _doubleQuotes.s]
    ELSE IF _quotes.ret = "false" \/ _doubleQuotes.ret = "false"
         THEN [ret |-> "false", s |-> _doubleQuotes.s]
         ELSE IF isCamelCase(word)
              THEN _checkSpellingOfCamelCaseWord(_doubleQuotes.s, word)
              ELSE checkWord(_doubleQuotes.s, word)

\* The double-quote test runs in the state the single-quote test left.
afterSingleQuotes(_quotes, word) ==
    afterQuotes(_quotes, quotesSeemCorrect(_quotes.s, word, "\""), word)

\* The quote and camel-case heuristics and the final check of
\* _hasCorrectSpelling (lines 247-281).
heuristics(s, word) ==
    afterSingleQuotes(quotesSeemCorrect(s, word, "'"), word)

\* Variant of _hasCorrectSpelling without the list of common terms.
M_hasCorrectSpellingNoCommonTerms(s, word) ==
    IF ~isNaNparseFloat(word) THEN [ret |-> "true", s |-> s]
    ELSE IF _spellingIgnoreUppercase /\ word = toUpperCase(word)
         THEN [ret |-> "true", s |-> s]
    ELSE heuristics(s, word)

\* Variant of _hasCorrectSpelling without the test for numbers.
M_hasCorrectSpellingNoNumbers(s, word) ==
    IF _isCommonTerm(word) THEN [ret |-> "true", s |-> s]
    ELSE IF _spellingIgnoreUppercase /\ word = toUpperCase(word)
         THEN [ret |-> "true", s |-> s]
    ELSE heuristics(s, word)

\* Variant of _hasCorrectSpelling without the test for upper-case words.
M_hasCorrectSpellingNoUppercase(s, word) ==
    IF _isCommonTerm(word) THEN [ret |-> "true", s |-> s]
    ELSE IF ~isNaNparseFloat(word) THEN [ret |-> "true", s |-> s]
    ELSE heuristics(s, word)

\* Variant of _hasCorrectSpelling without the rule for words that end
\* with an apostrophe.
M_hasCorrectSpellingNoPossessive(s, word) ==
    IF _isCommonTerm(word) THEN [ret |-> "true", s |-> s]
    ELSE IF ~isNaNparseFloat(word) THEN [ret |-> "true", s |-> s]
    ELSE IF _spellingIgnoreUppercase /\ word = toUpperCase(word)
         THEN [ret |-> "true", s |-> s]
    ELSE IF /\ _spellingIgnoreUppercase
            /\ endsWith(word, << "'", "s" >>)
            /\ LET _baseWord == substr(word, 0, Len(word) - 2)
               IN _baseWord = toUpperCase(_baseWord)
         THEN [ret |-> "true", s |-> s]
    ELSE heuristics(s, word)

\* The result is "true", "false" or "null".
_hasCorrectSpelling(s, word) ==
    IF _isCommonTerm(word) THEN [ret |-> "true", s |-> s]
    ELSE IF ~isNaNparseFloat(word) THEN [ret |-> "true", s |-> s]
    ELSE IF _spellingIgnoreUppercase /\ word = toUpperCase(word)
         THEN [ret |-> "true", s |-> s]
    ELSE IF /\ _spellingIgnoreUppercase
            /\ endsWith(word, << "'", "s" >>)
            /\ LET _baseWord == substr(word, 0, Len(word) - 2)
               IN _baseWord = toUpperCase(_baseWord)
         THEN [ret |-> "true", s |-> s]
    ELSE IF /\ _spellingIgnoreUppercase
            /\ endsWith(word, << "'" >>)
            /\ ~startsWith(word, << "'" >>)
            /\ LET _firstCharacter == substr(word, 0, 1)
               IN _firstCharacter = toUpperCase(_firstCharacter)
         THEN checkWord(s, substr(word, 0, Len(word) - 1))
    ELSE heuristics(s, word)

\* stream.peek(): the next character, undefined at the end of the line
peek(st) ==
    IF st.pos < Len(st.string) THEN st.string[st.pos + 1] ELSE UNDEFINED

\* Variant of the while loop of token that reads no character.
M_EndOfWordAtPosition(st) == st.pos

\* Variant of the while loop of token that runs to the end of the line.
M_EndOfWordAtEndOfLine(st) == Len(st.string)

\* The position where the while loop of token stops: the first separator
\* from pos on, or the end of the line.
EndOfWord(st) ==
    LET stops == {i \in st.pos..(Len(st.string) - 1) :
                     isWordSeparator(st.string[i + 1])}
    IN IF stops = {} THEN Len(st.string)
       ELSE CHOOSE i \in stops : \A j \in stops : i <= j

ErrorStyle == "alice-error-visualization alice-spelling-visualization"

\* The if statement that ends token(): h is the answer of
\* _hasCorrectSpelling; shouldIgnore is asked only when it is not true.
verdict(h, _word, sep, pos) ==
    IF h.ret # "true" /\ shouldIgnoreThrows(_word, sep)
    THEN [ret |-> UNDEFINED,
          s |-> [h.s EXCEPT !.word = _word, !.verdict = h.ret,
                           !.threw = TRUE],
          pos |-> pos, sep |-> sep, dirty |-> FALSE]
    ELSE
    [ret |-> IF h.ret # "true" /\ ~shouldIgnore(_word, sep)
             THEN ErrorStyle ELSE NULL,
     s |-> IF h.ret = "true"
           THEN [h.s EXCEPT !.word = _word, !.verdict = h.ret]
           ELSE [h.s EXCEPT !.word = _word, !.verdict = h.ret,
                            !.ignored = Append(@, << _word, sep,
                                                    shouldIgnore(_word, sep) >>)],
     pos |-> pos, sep |-> sep, dirty |-> TRUE]

\* Variant of token that does not look at the gate.
M_tokenFromNoGate(s, st, sep) ==
    IF isWordSeparator(peek(st))
    THEN [ret |-> NULL, s |-> s, pos |-> st.pos + 1,
          sep |-> Append(sep, peek(st)), dirty |-> FALSE]
    ELSE verdict(_hasCorrectSpelling(
                     s, SubSeq(st.string, st.pos + 1, EndOfWord(st))),
                 SubSeq(st.string, st.pos + 1, EndOfWord(st)),
                 sep, EndOfWord(st))

\* token(stream, state) from the gate on, sep being _lastWordSeparator
\* after the dirty test.
tokenFrom(s, st, sep) ==
    IF ~s.init
    THEN [ret |-> NULL, s |-> s, pos |-> Len(st.string), sep |-> sep,
          dirty |-> FALSE]
    ELSE IF isWordSeparator(peek(st))
         THEN [ret |-> NULL, s |-> s, pos |-> st.pos + 1,
               sep |-> Append(sep, peek(st)), dirty |-> FALSE]
         ELSE verdict(_hasCorrectSpelling(
                          s, SubSeq(st.string, st.pos + 1, EndOfWord(st))),
                      SubSeq(st.string, st.pos + 1, EndOfWord(st)),
                      sep, EndOfWord(st))

\* Variant of token that never clears _lastWordSeparator.
M_tokenNeverClears(s, st) == tokenFrom(s, st, _lastWordSeparator)

\* token(stream, state) of the overlay. The result carries the style
\* returned, the stream position and the two scanner variables.
token(s, st) ==
    tokenFrom(s, st,
              IF _lastWordSeparatorDirty THEN << >> ELSE _lastWordSeparator)

\* ------------------------------------------------------------------------
\* Actions
\* ------------------------------------------------------------------------

\* Writes a handler's final state back, with the record of the call.
Commit(s, op, name, ret) ==
    /\ _dictionaries' = s.d
    /\ _dictionariesBeingLoaded' = s.bl
    /\ _initialized' = s.init
    /\ pendingReads' = s.rd
    /\ gen' = s.gen
    /\ last' = [op |-> op, name |-> name, ret |-> ret,
                out |-> s.out, threw |-> s.threw, consulted |-> s.consulted,
                loadCalls |-> s.loadCalls, started |-> s.started,
                checked |-> s.checked, ignored |-> s.ignored,
                word |-> s.word, verdict |-> s.verdict, seen |-> s.seen]

\* The module-level initialisers, the profile table aside.
InitModules ==
    /\ _dictionaries = << >>
    /\ _dictionariesBeingLoaded = {}
    /\ _defaultLocale = "en_US"
    /\ _localeName = NULL
    /\ _initialized = FALSE
    /\ pendingReads = [r \in Names \X Halves |-> 0]
    /\ gen = [n \in Names |-> NoLoad]
    /\ last = [op |-> "init", name |-> NULL, ret |-> UNDEFINED,
               out |-> << >>, threw |-> FALSE, consulted |-> << >>,
               loadCalls |-> << >>, started |-> << >>, checked |-> << >>,
               ignored |-> << >>, word |-> << >>,
               verdict |-> UNDEFINED, seen |-> << >>]
    /\ _spellingIgnoreUppercase = TRUE
    /\ _lastWordSeparator = << >>
    /\ _lastWordSeparatorDirty = TRUE
    /\ stream = NoStream
    /\ _alwaysIgnoreFiles = << >>
    /\ _alwaysIgnoreCachedList = << w_alice >>
    /\ _ignoreOnlyWithCondition = << >>
    /\ _currentModeName = "Mode.all"
    /\ _currentDocumentContents = [isNull |-> TRUE, text |-> << >>]
    /\ userProfiles = << >>

\* ProfileManager._initialize: the done callback of _findUserProfiles.
UserProfilesLoaded ==
    /\ ~pm_initialized
    /\ _availableProfiles' = ProfileFiles
    /\ pm_initialized' = TRUE
    /\ last' = [last EXCEPT !.op = "userProfilesLoaded", !.name = NULL,
                  !.ret = UNDEFINED,
                  !.out = << << "userProfilesLoaded", UNDEFINED >> >>,
                  !.threw = FALSE, !.consulted = << >>, !.loadCalls = << >>,
                  !.started = << >>, !.checked = << >>, !.ignored = << >>,
                  !.word = << >>, !.verdict = UNDEFINED,
                  !.seen = << >>]
    /\ stream' = NoStream
    /\ UNCHANGED << _dictionaries, _dictionariesBeingLoaded, _defaultLocale,
                    _localeName, _initialized, pendingReads, gen,
                    profileLoadVars, checkerVars, utilityVars >>

\* SpellChecker.setLocaleName(localeName)
SetLocaleName(localeName) ==
    /\ _localeName' = localeName
    /\ _defaultLocale' = localeName
    /\ Commit(loadDictionary(Cur, localeName), "setLocaleName", localeName,
              UNDEFINED)
    /\ stream' = NoStream
    /\ UNCHANGED << _availableProfiles, pm_initialized, profileLoadVars, checkerVars,
                    utilityVars >>

\* DictionaryManager.loadDictionary(localeName), called from outside.
LoadDictionary(localeName) ==
    /\ LET s == loadDictionary(Cur, localeName)
       IN Commit(IF localeName \in _dictionariesBeingLoaded
                 THEN [s EXCEPT !.gen[localeName].reloaded = TRUE]
                 ELSE s,
                 "loadDictionary", localeName, UNDEFINED)
    /\ stream' = NoStream
    /\ UNCHANGED << _defaultLocale, _localeName, _availableProfiles,
                    pm_initialized, profileLoadVars, checkerVars, utilityVars >>

\* DictionaryManager.unloadDictionary(localeName), called from outside.
UnloadDictionary(localeName) ==
    /\ Commit(unloadDictionary(Cur, localeName), "unloadDictionary",
              localeName, UNDEFINED)
    /\ stream' = NoStream
    /\ UNCHANGED << _defaultLocale, _localeName, _availableProfiles,
                    pm_initialized, profileLoadVars, checkerVars, utilityVars >>

\* DictionaryManager.unloadAllDictionaries()
UnloadAllDictionaries ==
    /\ Commit(unloadAllDictionaries(Cur), "unloadAllDictionaries", NULL,
              UNDEFINED)
    /\ stream' = NoStream
    /\ UNCHANGED << _defaultLocale, _localeName, _availableProfiles,
                    pm_initialized, profileLoadVars, checkerVars, utilityVars >>

\* One pending read of a half completes and its callback runs.
ReadDone(localeName, half, ok) ==
    /\ pendingReads[<< localeName, half >>] > 0
    /\ LET s0 == [Cur EXCEPT !.rd[<< localeName, half >>] = @ - 1]
           s1 == IF half = "affix"
                 THEN affixReadCallback(s0, localeName, ok)
                 ELSE dictionaryReadCallback(s0, localeName, ok)
       IN Commit(s1, half, localeName, Bool(ok))
    /\ stream' = NoStream
    /\ UNCHANGED << _defaultLocale, _localeName, _availableProfiles,
                    pm_initialized, profileLoadVars, checkerVars, utilityVars >>

\* DictionaryManager.check(word, localeName), called from outside.
Check(word, localeName) ==
    /\ LET c == check(Cur, word, localeName)
       IN Commit(c.s, "check", localeName, c.ret)
    /\ stream' = NoStream
    /\ UNCHANGED << _defaultLocale, _localeName, _availableProfiles,
                    pm_initialized, profileLoadVars, checkerVars, utilityVars >>

\* What suggest leaves behind when it returns (or throws) c.
Suggested(c, localeName) == Commit(c.s, "suggest", localeName, c.ret)

\* DictionaryManager.suggest(word, localeName), called from outside.
Suggest(word, localeName) ==
    /\ Suggested(suggest(Cur, word, localeName), localeName)
    /\ stream' = NoStream
    /\ UNCHANGED << _defaultLocale, _localeName, _availableProfiles,
                    pm_initialized, profileLoadVars, checkerVars, utilityVars >>

\* The record of an operation that touches no dictionary.
Did(op, name, ret) ==
    [op |-> op, name |-> name, ret |-> ret, out |-> << >>, threw |-> FALSE,
     consulted |-> << >>, loadCalls |-> << >>, started |-> << >>,
     checked |-> << >>, ignored |-> << >>, word |-> << >>,
     verdict |-> UNDEFINED, seen |-> << >>]

dictionaryVars == << _dictionaries, _dictionariesBeingLoaded, _defaultLocale,
                     _availableProfiles, pm_initialized, profileLoadVars,
                     _localeName, _initialized, pendingReads, gen >>

\* CodeMirror starts the scan of a line with a new stream. carried is a
\* record of the separators that the first token() call of the scan will
\* find in _lastWordSeparator after its dirty test.
BeginLine(line) ==
    /\ stream' = [string |-> line, pos |-> 0,
                  carried |-> IF _lastWordSeparatorDirty THEN << >>
                              ELSE _lastWordSeparator]
    /\ last' = Did("beginLine", NULL, UNDEFINED)
    /\ UNCHANGED << dictionaryVars, checkerVars, utilityVars >>

\* What token() leaves behind when it returns t. The run of separators
\* that _lastWordSeparator collects has no limit in the code (it grows over
\* lines that hold no word); here it is capped.
Returned(t) ==
    /\ Len(t.sep) <= MaxSeparatorRun
    /\ Commit(t.s, "token", NULL, t.ret)
    /\ stream' = [stream EXCEPT !.pos = t.pos]
    /\ _lastWordSeparator' = t.sep
    /\ _lastWordSeparatorDirty' = t.dirty

\* CodeMirror calls token() of the overlay at the stream position.
Token ==
    /\ stream.pos < Len(stream.string)
    /\ \E t \in {token(Cur, stream)} : Returned(t)
    /\ UNCHANGED << _defaultLocale, _localeName, _availableProfiles,
                    pm_initialized, profileLoadVars, _spellingIgnoreUppercase, utilityVars >>

\* SpellChecker.shouldIgnoreUppercaseWords(shouldIgnore)
ShouldIgnoreUppercaseWords(b) ==
    /\ _spellingIgnoreUppercase' = b
    /\ stream' = NoStream
    /\ last' = Did("shouldIgnoreUppercaseWords", NULL, UNDEFINED)
    /\ UNCHANGED << dictionaryVars, _lastWordSeparator,
                    _lastWordSeparatorDirty, utilityVars >>

\* The read of a utility file completes and _loadUtilityFile runs.
LoadUtilityFile(file, err) ==
    /\ file \in utilityReads
    /\ utilityReads' = utilityReads \ {file}
    /\ LET u == _loadUtilityFile(CurUtility, err, file)
       IN /\ _alwaysIgnoreFiles' = u.files
          /\ _alwaysIgnoreCachedList' = u.cached
          /\ _ignoreOnlyWithCondition' = u.cond
    /\ stream' = NoStream
    /\ last' = [Did("_loadUtilityFile", NULL, UNDEFINED) EXCEPT
                  !.threw = ~err /\ ~JSONparses(file)]
    /\ UNCHANGED << dictionaryVars, checkerVars, _currentModeName,
                    _currentDocumentContents >>

\* UtilityManager.setModeName(mode)
SetModeName(mode) ==
    /\ _currentModeName' = mode
    /\ stream' = NoStream
    /\ last' = Did("setModeName", NULL, UNDEFINED)
    /\ UNCHANGED << dictionaryVars, checkerVars, _alwaysIgnoreFiles,
                    _alwaysIgnoreCachedList, _ignoreOnlyWithCondition,
                    _currentDocumentContents, utilityReads >>

\* UtilityManager.setDocumentContents(contents) and _handleDocumentChange
SetDocumentContents(contents) ==
    /\ _currentDocumentContents' = [isNull |-> FALSE, text |-> contents]
    /\ stream' = NoStream
    /\ last' = Did("setDocumentContents", NULL, UNDEFINED)
    /\ UNCHANGED << dictionaryVars, checkerVars, _alwaysIgnoreFiles,
                    _alwaysIgnoreCachedList, _ignoreOnlyWithCondition,
                    _currentModeName, utilityReads >>

\* UtilityManager.shouldIgnore(word, beforeContext), called from outside.
ShouldIgnore(word, beforeContext) ==
    /\ LET r == shouldIgnore(word, beforeContext)
       IN last' = IF shouldIgnoreThrows(word, beforeContext)
                  THEN [Did("shouldIgnore", NULL, UNDEFINED) EXCEPT
                          !.threw = TRUE]
                  ELSE [Did("shouldIgnore", NULL, Bool(r)) EXCEPT
                          !.ignored = << << word, beforeContext, r >> >>]
    /\ stream' = NoStream
    /\ UNCHANGED << dictionaryVars, checkerVars, utilityVars >>

\* UtilityManager.shouldIgnore(word, null), called from outside.
ShouldIgnoreNull(word) ==
    /\ LET r == shouldIgnoreNull(word)
       IN last' = [Did("shouldIgnoreNull", NULL, Bool(r)) EXCEPT
                     !.ignored = << << word, << >>, r >> >>]
    /\ stream' = NoStream
    /\ UNCHANGED << dictionaryVars, checkerVars, utilityVars >>

\* The loop of the read callback that sets the default item type.
withDefaultType(items) ==
    [i \in DOMAIN items |->
        IF items[i].type = UNDEFINED
        THEN [items[i] EXCEPT !.type = "dictionary"]
        ELSE items[i]]

\* The callback of profilePath.read in _findUserProfiles: how it leaves the
\* deferred _profile of the file. "threw": an exception ended the callback
\* (JSON.parse on text that is no JSON; .length of the undefined items,
\* typeof never being === undefined), and the deferred stays pending.
profileReadCallback(file, err) ==
    IF err THEN "rejected"
    ELSE IF ~file.parses THEN "threw"
    ELSE IF ~file.hasItems THEN "threw"
    ELSE IF Len(file.items) = 0 THEN "rejected"
    ELSE "resolved"

\* The record of a profile read; the last deferred to settle resolves
\* _findUserProfiles, whose done callback in _initialize triggers
\* userProfilesLoaded.
ProfileRead(file, r, allSettled) ==
    [Did("profileRead", file.path, UNDEFINED) EXCEPT
       !.threw = (r = "threw"),
       !.out = IF allSettled THEN << << "userProfilesLoaded", UNDEFINED >> >>
               ELSE << >>]

\* What the read callback that ended as r leaves behind: p and u are
\* the deferreds and the collected profiles after it.
ProfileReadSettled(file, r, p, u) ==
    /\ _profile' = p
    /\ userProfiles' = u
    /\ IF \A f \in DOMAIN p : p[f] # "pending"
       THEN /\ _availableProfiles' = u
            /\ pm_initialized' = TRUE
       ELSE UNCHANGED << _availableProfiles, pm_initialized >>
    /\ last' = ProfileRead(file, r, \A f \in DOMAIN p : p[f] # "pending")

\* The getContents callback of _findUserProfiles hands the .json files of
\* the directory and the read of each is started.
FindUserProfiles(contents) ==
    /\ ~pm_initialized
    /\ DOMAIN _profile = {}
    /\ _profile' = [f \in contents |-> "pending"]
    /\ profileReads' = contents
    /\ last' = Did("_findUserProfiles", NULL, UNDEFINED)
    /\ stream' = NoStream
    /\ UNCHANGED << _dictionaries, _dictionariesBeingLoaded, _defaultLocale,
                    _availableProfiles, pm_initialized, userProfiles,
                    _localeName, _initialized, pendingReads, gen,
                    checkerVars, utilityVars >>

\* The read of a profile file completes and its callback runs.
ProfileReadDone(file, err) ==
    /\ file \in profileReads
    /\ profileReads' = profileReads \ {file}
    /\ ProfileReadSettled(
          file, profileReadCallback(file, err),
          IF profileReadCallback(file, err) = "threw" THEN _profile
          ELSE [_profile EXCEPT ![file] = profileReadCallback(file, err)],
          IF profileReadCallback(file, err) = "resolved"
          THEN Put(userProfiles, file.profile, withDefaultType(file.items))
          ELSE userProfiles)
    /\ stream' = NoStream
    /\ UNCHANGED << _dictionaries, _dictionariesBeingLoaded, _defaultLocale,
                    _localeName, _initialized, pendingReads, gen,
                    checkerVars, utilityVars >>

\* ------------------------------------------------------------------------
\* Spec: the DictionaryManager API (load, unload, read callbacks) used by
\* arbitrary callers, once the user profiles are known.
\* ------------------------------------------------------------------------
Init ==
    /\ InitModules
    /\ _availableProfiles = ProfileFiles
    /\ pm_initialized = TRUE
    /\ utilityReads = {}
    /\ _profile = << >>
    /\ profileReads = {}

Next ==
    \/ \E n \in DictionaryFiles \cup {"my_en", NULL} : LoadDictionary(n)
    \/ \E n \in DictionaryFiles : UnloadDictionary(n)
    \/ UnloadAllDictionaries
    \/ \E n \in DictionaryFiles, h \in Halves : \E ok \in ReadOutcomes(n) :
          ReadDone(n, h, ok)
    \/ \E n \in DictionaryFiles \cup {"my_en", UNDEFINED} :
          Suggest(w_qucik, n)

Spec == Init /\ [][Next]_vars

\* ------------------------------------------------------------------------
\* SpecProfile: the application's wiring from module load on: the host
\* sets the locale, the profile files arrive, words are checked against
\* the active locale or profile, and reads complete. The host offers a
\* profile for selection once the profile list has arrived.
\* ------------------------------------------------------------------------
InitProfile ==
    /\ InitModules
    /\ _availableProfiles = << >>
    /\ pm_initialized = FALSE
    /\ utilityReads = {}
    /\ _profile = << >>
    /\ profileReads = {}

NextProfile ==
    \/ UserProfilesLoaded
    \/ \E n \in Names \ {"html"} :
          /\ pm_initialized \/ n \in DictionaryFiles
          /\ SetLocaleName(n)
    \/ \E n \in Names, h \in Halves : \E ok \in ReadOutcomes(n) :
          ReadDone(n, h, ok)
    \/ \E w \in CheckWords : Check(w, UNDEFINED)

SpecProfile == InitProfile /\ [][NextProfile]_vars

\* ------------------------------------------------------------------------
\* SpecScan: the overlay at work. The host sets the locale, the reads of
\* the dictionary files complete (read errors are the business of Spec and
\* SpecProfile), utility files arrive, and CodeMirror scans lines of text
\* token by token.
\* ------------------------------------------------------------------------
InitScan ==
    /\ InitModules
    /\ _availableProfiles = ProfileFiles
    /\ pm_initialized = TRUE
    /\ utilityReads = {u_typos, u_after}
    /\ _profile = << >>
    /\ profileReads = {}

NextScan ==
    \/ \E n \in DictionaryFiles \cup {"my_en"} : SetLocaleName(n)
    \/ \E n \in DictionaryFiles, h \in Halves : ReadDone(n, h, TRUE)
    \/ \E f \in UtilityFiles : LoadUtilityFile(f, FALSE)
    \/ \E b \in BOOLEAN : ShouldIgnoreUppercaseWords(b)
    \/ \E l \in Lines : BeginLine(l)
    \/ Token

SpecScan == InitScan /\ [][NextScan]_vars

\* ------------------------------------------------------------------------
\* The classifier over one-word lines, with reads that may fail and no
\* utility file.
\* ------------------------------------------------------------------------
InitClassify ==
    /\ InitModules
    /\ _availableProfiles = ProfileFiles
    /\ pm_initialized = TRUE
    /\ utilityReads = {}
    /\ _profile = << >>
    /\ profileReads = {}

NextClassify ==
    \/ \E n \in DictionaryFiles : SetLocaleName(n)
    \/ \E n \in DictionaryFiles, h \in Halves : \E ok \in ReadOutcomes(n) :
          ReadDone(n, h, ok)
    \/ \E b \in BOOLEAN : ShouldIgnoreUppercaseWords(b)
    \/ \E l \in WordLines : BeginLine(l)
    \/ Token

SpecClassify == InitClassify /\ [][NextClassify]_vars

\* ------------------------------------------------------------------------
\* SpecIgnore: the UtilityManager on its own. The utility files arrive in
\* any order, the host sets the mode and the document, and shouldIgnore is
\* asked about words in contexts.
\* ------------------------------------------------------------------------
InitIgnore ==
    /\ InitModules
    /\ _availableProfiles = ProfileFiles
    /\ pm_initialized = TRUE
    /\ utilityReads = UtilityFiles
    /\ _profile = << >>
    /\ profileReads = {}

NextIgnore ==
    \/ \E f \in UtilityFiles, err \in BOOLEAN : LoadUtilityFile(f, err)
    \/ \E m \in ModeNames : SetModeName(m)
    \/ \E c \in DocumentContents : SetDocumentContents(c)
    \/ \E w \in CheckWords \cup {w_alice}, b \in BeforeContexts :
          ShouldIgnore(w, b)
    \/ \E w \in CheckWords \cup {w_alice} : ShouldIgnoreNull(w)

SpecIgnore == InitIgnore /\ [][NextIgnore]_vars

\* ------------------------------------------------------------------------
\* SpecUserProfiles: the ProfileManager at start-up. The directory of user
\* profiles is listed (it holds at least one .json file), the read of each
\* file completes or fails, in any order, and the host asks for the items
\* of a profile.
\* ------------------------------------------------------------------------
InitUserProfiles ==
    /\ InitModules
    /\ _availableProfiles = << >>
    /\ pm_initialized = FALSE
    /\ utilityReads = {}
    /\ _profile = << >>
    /\ profileReads = {}

NextUserProfiles ==
    \/ \E contents \in (SUBSET UserProfileFiles) \ {{}} :
          FindUserProfiles(contents)
    \/ \E f \in UserProfileFiles, err \in BOOLEAN : ProfileReadDone(f, err)

SpecUserProfiles == InitUserProfiles /\ [][NextUserProfiles]_vars

\* ------------------------------------------------------------------------
\* SpecIngest: the UtilityManager with a utilities directory that holds
\* two ignore rules and files that are none. The reads complete or fail in
\* any order, the host sets the mode, and shouldIgnore is asked.
\* ------------------------------------------------------------------------
InitIngest ==
    /\ InitModules
    /\ _availableProfiles = ProfileFiles
    /\ pm_initialized = TRUE
    /\ utilityReads = {u_typos, u_after} \cup MalformedUtilityFiles
    /\ _profile = << >>
    /\ profileReads = {}

NextIngest ==
    \/ \E f \in {u_typos, u_after} \cup MalformedUtilityFiles,
          err \in BOOLEAN : LoadUtilityFile(f, err)
    \/ \E m \in ModeNames : SetModeName(m)
    \/ \E w \in {w_color, w_qucik}, b \in BeforeContexts :
          ShouldIgnore(w, b)

SpecIngest == InitIngest /\ [][NextIngest]_vars

\* ------------------------------------------------------------------------
\* SpecLazy: the overlay scanning a document of one line again and again
\* while the host selects a profile or a locale; every read succeeds.
\* CodeMirror rescans the line and a read that was started completes
\* (weak fairness); it calls token() on a line that is not done however
\* often the host's calls make it start over (strong fairness). The host's
\* calls are not fair.
\* ------------------------------------------------------------------------
InitLazy ==
    /\ InitModules
    /\ _availableProfiles = ProfileFiles
    /\ pm_initialized = TRUE
    /\ utilityReads = {}
    /\ _profile = << >>
    /\ profileReads = {}

ReadSucceeds == \E n \in DictionaryFiles, h \in Halves : ReadDone(n, h, TRUE)

NextLazy ==
    \/ \E n \in {"my_en", "en_GB"} : SetLocaleName(n)
    \/ ReadSucceeds
    \/ BeginLine(TheQucik)
    \/ Token

SpecLazy ==
    /\ InitLazy
    /\ [][NextLazy]_vars
    /\ SF_vars(Token)
    /\ WF_vars(BeginLine(TheQucik))
    /\ WF_vars(ReadSucceeds)

\* ------------------------------------------------------------------------
\* Properties
\* ------------------------------------------------------------------------

\* At most one read of each half of a locale is in flight.
OneReadPerHalf == \A r \in Names \X Halves : pendingReads[r] <= 1

BothHalvesOk(n) == gen[n].affix = "ok" /\ gen[n].dictionary = "ok"

\* C4: within one load of a locale the Typo instance is built only once
\* both read callbacks have completed successfully, whichever came first,
\* and then exactly once, together with exactly one dictionaryLoaded.
C4_TypoBuiltOnceAfterBothHalves ==
    \A n \in Names :
        /\ gen[n].typo <= 1
        /\ gen[n].loaded = gen[n].typo
        /\ gen[n].typo = 1 <=> BothHalvesOk(n)
        /\ (last.op \in Halves /\ last.name = n /\ BothHalvesOk(n))
              => last.out = << << "dictionaryLoaded", n >> >>

\* C4 witness: the word-list half completed first, the affix half second,
\* and the affix callback built the Typo instance and notified.
C4_Witness ==
    /\ last.op = "affix"
    /\ BothHalvesOk(last.name)
    /\ gen[last.name].typo = 1
    /\ last.out = << << "dictionaryLoaded", last.name >> >>
    /\ last.name \in DOMAIN _dictionaries
    /\ _dictionaries[last.name].initialized

\* C5: a loadDictionary(L) call made while L is being loaded starts no
\* file read and no load, and a load that was called again still ends in
\* exactly one dictionaryLoaded(L) once both halves have succeeded.
C5_ReloadWhileLoadingIsDeduplicated ==
    /\ [][\A n \in Names :
            (last'.op = "loadDictionary" /\ last'.name = n
             /\ n \in _dictionariesBeingLoaded)
            => /\ pendingReads' = pendingReads
               /\ last'.started = << >>
               /\ gen'[n].reads = gen[n].reads
               /\ gen'[n].loaded = gen[n].loaded]_vars
    /\ [](\A n \in Names :
            /\ gen[n].reads <= 2
            /\ gen[n].loaded <= 1
            /\ (gen[n].reloaded /\ BothHalvesOk(n)) => gen[n].loaded = 1)

\* C5 witness: loadDictionary was called again during the load, both
\* halves then succeeded and one notification went out.
C5_Witness ==
    \E n \in Names :
        /\ gen[n].reloaded
        /\ BothHalvesOk(n)
        /\ gen[n].loaded = 1
        /\ gen[n].reads = 2

\* C6: loadDictionary(L) changes nothing and notifies nobody when L is being
\* loaded, names a known profile or already has a registry entry.
C6_LoadDictionaryNoOp ==
    [][(/\ last'.op = "loadDictionary"
        /\ \/ last'.name \in _dictionariesBeingLoaded
           \/ hasProfile(last'.name)
           \/ hasDictionary(_dictionaries, last'.name, FALSE))
       => /\ _dictionaries' = _dictionaries
          /\ _dictionariesBeingLoaded' = _dictionariesBeingLoaded
          /\ pendingReads' = pendingReads
          /\ _initialized' = _initialized
          /\ last'.out = << >>
          /\ last'.started = << >>]_vars

\* C6 witness: a call with a profile name has just returned while one
\* locale is being loaded and another is Ready.
C6_Witness ==
    /\ last.op = "loadDictionary"
    /\ last.started = << >>
    /\ hasProfile(last.name)
    /\ \E n \in DictionaryFiles : n \in _dictionariesBeingLoaded
    /\ \E n \in DictionaryFiles : hasDictionary(_dictionaries, n, TRUE)

\* C7: once both read callbacks of a load have run and at least one read
\* failed, the entry is gone, the locale is not marked as being loaded and
\* exactly one dictionaryFailedToLoad went out.
C7_ReadErrorIsCleanedUp ==
    \A n \in Names :
        (/\ gen[n].affix \in {"ok", "err"}
         /\ gen[n].dictionary \in {"ok", "err"}
         /\ "err" \in {gen[n].affix, gen[n].dictionary})
        => /\ n \notin DOMAIN _dictionaries
           /\ n \notin _dictionariesBeingLoaded
           /\ gen[n].failed = 1

\* Every ordering of a sequence.
Orderings(seq) ==
    LET n == Len(seq)
        bij == {f \in [1..n -> 1..n] : \A i, j \in 1..n : f[i] = f[j] => i = j}
    IN {[i \in 1..n |-> seq[f[i]]] : f \in bij}

Ready(n) == hasDictionary(_dictionaries, n, TRUE)

DictionaryItems(items) ==
    {i \in 1..Len(items) : items[i].type = "dictionary"}

Accepts(n, word) == Ready(n) /\ TypoCheck(_dictionaries[n].typo, word)

\* C8: for a known profile whose dictionary items are all Ready, check is
\* true exactly when one of them accepts the word, in every ordering of
\* the profile's items.
C8_ProfileCheckIsOrderIndependentOr ==
    \A p \in DOMAIN _availableProfiles :
        LET items == _availableProfiles[p]
        IN (pm_initialized
            /\ \A i \in DictionaryItems(items) : Ready(items[i].name))
           => \A w \in CheckWords :
                 /\ check(Cur, w, p).ret
                       = Bool(\E i \in DictionaryItems(items) :
                                 Accepts(items[i].name, w))
                 /\ \A o \in Orderings(items) :
                       checkProfileItems(Cur, o, 1, w).ret
                          = check(Cur, w, p).ret

\* C8 witness: with both dictionaries of my_en Ready a check on the profile
\* has just been answered true by the second one after the first refused.
C8_Witness ==
    /\ last.op = "check"
    /\ _defaultLocale = "my_en"
    /\ pm_initialized
    /\ last.consulted = << "en_US", "en_GB" >>
    /\ last.ret = "true"

\* The first item of a profile whose Ready lexicon accepts the word, or
\* one past the end.
RECURSIVE FirstAccepting(_, _, _)
FirstAccepting(items, i, word) ==
    IF i > Len(items) \/ Accepts(items[i].name, word) THEN i
    ELSE FirstAccepting(items, i + 1, word)

\* The names of the items i..k that lie in the set among, in order.
RECURSIVE ItemNames(_, _, _, _)
ItemNames(items, i, k, among) ==
    IF i > k \/ i > Len(items) THEN << >>
    ELSE (IF items[i].name \in among THEN << items[i].name >> ELSE << >>)
         \o ItemNames(items, i + 1, k, among)

ReadyNames == {n \in Names : Ready(n)}

\* C9: a check on a profile asks the lexicons of the Ready items up to the
\* first one that accepts the word and calls loadDictionary for the items
\* before it that are not Ready, and for nothing else; selecting a profile
\* or learning of the profiles starts no load.
C9_ProfileCheckShortCircuits ==
    /\ [](\A p \in DOMAIN _availableProfiles : \A w \in CheckWords :
            LET items == _availableProfiles[p]
                k == FirstAccepting(items, 1, w)
                r == check(Cur, w, p)
            IN pm_initialized
               => /\ r.s.consulted = ItemNames(items, 1, k, ReadyNames)
                  /\ r.s.loadCalls = ItemNames(items, 1, k - 1, Names \ ReadyNames)
                  /\ \A j \in 1..Len(r.s.started) :
                        \E i \in 1..(k - 1) : items[i].name = r.s.started[j])
    /\ [][(last'.op = "userProfilesLoaded"
           \/ (last'.op = "setLocaleName" /\ hasProfile(last'.name)))
          => /\ last'.started = << >>
             /\ _dictionaries' = _dictionaries
             /\ pendingReads' = pendingReads]_vars

\* C9 witness: a check on my_en has just been answered true by en_US alone,
\* and en_GB, the later item, has no entry and no read in flight.
C9_Witness ==
    /\ last.op = "check"
    /\ _defaultLocale = "my_en"
    /\ pm_initialized
    /\ last.ret = "true"
    /\ last.consulted = << "en_US" >>
    /\ last.loadCalls = << >>
    /\ "en_GB" \notin DOMAIN _dictionaries
    /\ gen["en_GB"] = NoLoad

\* C10: for a known, initialized profile none of whose items is Ready,
\* check answers false, never null, whatever the word.
C10_ProfileWithNothingReadyIsIncorrect ==
    \A p \in DOMAIN _availableProfiles :
        LET items == _availableProfiles[p]
        IN (pm_initialized /\ \A i \in 1..Len(items) : ~Ready(items[i].name))
           => \A w \in CheckWords : check(Cur, w, p).ret = "false"

\* C10 witness: a check on my_en with nothing Ready has just answered false
\* and started the loads of both dictionaries.
C10_Witness ==
    /\ last.op = "check"
    /\ _defaultLocale = "my_en"
    /\ pm_initialized
    /\ last.ret = "false"
    /\ last.consulted = << >>
    /\ last.started = << "en_US", "en_GB" >>
    /\ ~Ready("en_US") /\ ~Ready("en_GB")

\* The locale or profile last passed to setLocaleName has a Ready lexicon:
\* the locale itself, or one of the dictionaries of the profile.
ActiveHasReadyLexicon ==
    IF hasProfile(_localeName)
    THEN \E i \in DictionaryItems(_availableProfiles[_localeName]) :
            Ready(_availableProfiles[_localeName][i].name)
    ELSE Ready(_localeName)

\* C1: token() flags a token as a spelling error only if the active locale
\* or profile has a Ready lexicon; while it has none, no token is flagged.
C1_FlagsOnlyWithReadyActiveLexicon ==
    (last.op = "token" /\ last.ret = ErrorStyle) => ActiveHasReadyLexicon

\* C2: when DictionaryManager.check answers null for the word or a part of
\* it, token() does not flag the token and raises nothing.
C2_IndeterminateWithholdsVerdict ==
    (/\ last.op = "token"
     /\ \E i \in DOMAIN last.checked : last.checked[i][2] = NULL)
    => (last.ret = NULL /\ ~last.threw)

\* C3: once an unconditional utility file is loaded, shouldIgnore is true
\* for every word of its ignore list in every context, the empty one
\* included.
C3_UnconditionalIgnoreAlwaysApplies ==
    \A i \in DOMAIN _alwaysIgnoreFiles :
        \A j \in DOMAIN _alwaysIgnoreFiles[i].ignore :
            \A b \in BeforeContexts :
                shouldIgnore(_alwaysIgnoreFiles[i].ignore[j], b)

\* The names a sequence holds.
Range(seq) == {seq[i] : i \in DOMAIN seq}

\* The names of the items of a profile that are not of type dictionary.
OtherItemNames(items) ==
    {items[i].name : i \in (DOMAIN items) \ DictionaryItems(items)}

\* C11: a check on a known profile consults no item of type utility or
\* programming as a lexicon and starts no load (registry entry, file
\* reads) for the name of such an item.
C11_ProfileCheckUsesDictionaryItemsOnly ==
    (last.op = "check" /\ pm_initialized /\ hasProfile(_defaultLocale))
    => LET others == OtherItemNames(_availableProfiles[_defaultLocale])
       IN /\ Range(last.consulted) \cap others = {}
          /\ Range(last.started) \cap others = {}

\* C12: suggest(word, L) raises nothing; it hands the question to the
\* lexicon of L exactly when that lexicon is Ready and answers null
\* otherwise (no entry, an entry still loading, a profile name).
C12_SuggestOnlyFromReadyLexicon ==
    last.op = "suggest"
    => LET loc == IF last.name = UNDEFINED THEN _defaultLocale
                  ELSE last.name
       IN /\ ~last.threw
          /\ Ready(loc) => (last.consulted = << loc >> /\ last.ret = "array")
          /\ ~Ready(loc) => (last.consulted = << >> /\ last.ret = NULL)

\* C13: unloadDictionary(L) removes the entry of L and no other, leaves
\* every other entry as it was and triggers dictionaryUnloaded(L) once and
\* nothing else; unloadAllDictionaries() leaves the registry empty and
\* triggers dictionariesUnloaded once and nothing per locale.
C13_UnloadFrame ==
    [][/\ last'.op = "unloadDictionary"
          => /\ DOMAIN _dictionaries' = (DOMAIN _dictionaries) \ {last'.name}
             /\ \A n \in DOMAIN _dictionaries' :
                    _dictionaries'[n] = _dictionaries[n]
             /\ last'.out = << << "dictionaryUnloaded", last'.name >> >>
       /\ last'.op = "unloadAllDictionaries"
          => /\ DOMAIN _dictionaries' = {}
             /\ last'.out = << << "dictionariesUnloaded", UNDEFINED >> >>]_vars

\* C13 witness: a locale that had become Ready has just been unloaded
\* while another locale keeps its Ready entry.
C13_Witness ==
    /\ last.op = "unloadDictionary"
    /\ last.out = << << "dictionaryUnloaded", last.name >> >>
    /\ gen[last.name].loaded = 1
    /\ last.name \notin DOMAIN _dictionaries
    /\ \E n \in DictionaryFiles \ {last.name} : Ready(n)

\* The life-cycle state of the registry entry of locale n in registry d:
\* no entry, built, a read failed, or reads under way.
EntryState(d, n) ==
    IF n \notin DOMAIN d THEN "Unloaded"
    ELSE IF d[n].initialized THEN "Ready"
    ELSE IF "null" \in {d[n].affixLoaded, d[n].dictionaryLoaded} THEN "Failed"
    ELSE "Loading"

\* The transitions an entry may make.
LegalTransitions ==
    { << "Unloaded", "Loading" >>, << "Loading", "Ready" >>,
      << "Loading", "Failed" >>, << "Ready", "Unloaded" >> }

\* C14: whatever loadDictionary, unloadDictionary, unloadAllDictionaries
\* and the read callbacks do, an entry either keeps its state or goes
\* Unloaded -> Loading, Loading -> Ready, Loading -> Failed, or Ready ->
\* Unloaded by an explicit unload; no load is started for an entry that is
\* Loading.
C14_EntryLifeCycle ==
    [][\A n \in Names :
          LET from == EntryState(_dictionaries, n)
              to == EntryState(_dictionaries', n)
          IN /\ from # to => << from, to >> \in LegalTransitions
             /\ (from = "Ready" /\ to = "Unloaded")
                   => last'.op \in {"unloadDictionary", "unloadAllDictionaries"}
             /\ from = "Loading" => n \notin Range(last'.started)]_vars

\* C15: in every reachable state an entry of the registry is initialized
\* exactly when both its affix data and its word-list data were read
\* successfully and its Typo handle is not null.
C15_ReadyIffBothHalvesAndHandle ==
    \A n \in DOMAIN _dictionaries :
        LET e == _dictionaries[n]
        IN e.initialized
           <=> /\ e.affixLoaded = "true"
               /\ e.dictionaryLoaded = "true"
               /\ e.typo # NULL

\* C15 witness: one entry is initialized with both halves and its handle,
\* while another has one half read, the other failed, and no handle.
C15_Witness ==
    /\ \E n \in DOMAIN _dictionaries :
          /\ _dictionaries[n].initialized
          /\ _dictionaries[n].typo = n
          /\ _dictionaries[n].affixData # NULL
          /\ _dictionaries[n].dictionaryData # NULL
    /\ \E n \in DOMAIN _dictionaries :
          /\ ~_dictionaries[n].initialized
          /\ _dictionaries[n].affixLoaded = "true"
          /\ _dictionaries[n].dictionaryLoaded = NULL
          /\ _dictionaries[n].typo = NULL

\* The style token() returned against the verdict v of the classifier and
\* the answer ig of shouldIgnore: the error style exactly for the verdict
\* Incorrect (false) that is not ignored, and never for an ignored word.
FlaggedIffIncorrectAndNotIgnored(v, ig, ret) ==
    /\ (ret = ErrorStyle) <=> (v = "false" /\ ~ig)
    /\ ig => ret = NULL

\* C16: a word token is flagged exactly when _hasCorrectSpelling answers
\* Incorrect for it and shouldIgnore is false for the word and the
\* separator run held before it; a word shouldIgnore accepts is never
\* flagged.
C16_FlaggedIffIncorrectAndNotIgnored ==
    [][(last'.op = "token" /\ last'.word # << >>)
       => FlaggedIffIncorrectAndNotIgnored(
              _hasCorrectSpelling(Cur, last'.word).ret,
              shouldIgnore(last'.word,
                           IF _lastWordSeparatorDirty THEN << >>
                           ELSE _lastWordSeparator),
              last'.ret)]_vars

\* What token() left for a word settled by a heuristic alone: no error
\* style, the verdict true (or none behind the closed gate), and no
\* question put to DictionaryManager.check or to a lexicon.
SettledWithoutDictionary ==
    /\ last.ret = NULL
    /\ last.verdict \in {"true", UNDEFINED}
    /\ last.checked = << >>
    /\ last.consulted = << >>

\* The locales whose lexicon is Ready and would accept the word.
Accepting(word) ==
    {n \in DictionaryFiles : Ready(n) /\ TypoCheck(_dictionaries[n].typo, word)}

\* C17: a word of the list of common terms is never flagged, whatever the
\* registry holds (nothing, entries loading, Ready or failed) and without
\* any lexicon being asked.
C17_CommonTermNeverFlagged ==
    (last.op = "token" /\ _isCommonTerm(last.word))
    => SettledWithoutDictionary

\* C17 witness: with the gate open, the active locale's entry failed and a
\* Ready lexicon that does not hold the word, token() classified the
\* common term "json" as correct.
C17_Witness ==
    /\ last.op = "token"
    /\ last.word = w_json
    /\ last.verdict = "true"
    /\ last.ret = NULL
    /\ _initialized
    /\ EntryState(_dictionaries, _localeName) = "Failed"
    /\ \E n \in DictionaryFiles : Ready(n)
    /\ Accepting(w_json) = {}

\* C18: a word that parseFloat reads as a number is classified correct
\* without a dictionary being asked, whatever the registry holds and
\* whether upper-case words are ignored or not.
C18_NumberIsCorrect ==
    (last.op = "token" /\ last.word # << >> /\ ~isNaNparseFloat(last.word))
    => SettledWithoutDictionary

\* C18 witness: with upper-case words not ignored and the active lexicon
\* Ready, token() classified "42" as correct and asked no dictionary.
C18_Witness ==
    /\ last.op = "token"
    /\ last.word = w_42
    /\ last.verdict = "true"
    /\ last.checked = << >>
    /\ ~_spellingIgnoreUppercase
    /\ Ready(_localeName)

\* Words of lower-case letters only.
IsLowerCaseWord(word) ==
    word # << >> /\ \A i \in DOMAIN word : IsLower(word[i])

IsQuoted(word) ==
    Len(word) >= 3 /\ word[1] = "'" /\ word[Len(word)] = "'"

\* C20: a word made of an inner word between two single quotes is
\* classified correct whenever DictionaryManager.check answers true for the
\* inner word.
C20_QuotedCorrectInnerIsCorrect ==
    (/\ last.op = "token"
     /\ IsQuoted(last.word)
     /\ check(Cur, SubSeq(last.word, 2, Len(last.word) - 1), UNDEFINED).ret
           = "true")
    => last.verdict = "true"

\* Whether the word holds a single or a double quote.
HasQuote(word) == \E i \in DOMAIN word : word[i] \in {"'", "\""}

\* Whether _hasCorrectSpelling gets as far as the camel-case heuristic with
\* the word and applies it: no earlier rule settles the word.
ReachesCamelCaseRule(word) ==
    /\ isCamelCase(word)
    /\ ~_isCommonTerm(word)
    /\ isNaNparseFloat(word)
    /\ ~(_spellingIgnoreUppercase /\ word = toUpperCase(word))
    /\ ~HasQuote(word)

NoRuleLists(word) ==
    /\ \A i \in DOMAIN _alwaysIgnoreFiles :
          ~Has(_alwaysIgnoreFiles[i].ignore, word)
    /\ \A i \in DOMAIN _ignoreOnlyWithCondition :
          ~Has(_ignoreOnlyWithCondition[i].ignore, word)
    /\ ~Has(_alwaysIgnoreCachedList, word)

\* The token() calls of one pass over "The qucik foxx" with the gate open:
\* position before, position after, word, verdict, style.
TheQucikFoxxScan ==
    { << 0, 3, w_The, "true", NULL >>,
      << 3, 4, << >>, UNDEFINED, NULL >>,
      << 4, 9, w_qucik, "false", ErrorStyle >>,
      << 9, 10, << >>, UNDEFINED, NULL >>,
      << 10, 14, w_foxx, "false", ErrorStyle >> }

\* C22: with the active locale's lexicon Ready, holding "the", "quick" and
\* "fox" and neither "qucik" nor "foxx", and no utility file listing a word
\* of the line, the pass over "The qucik foxx" cuts the three words in
\* order and classifies them correct, incorrect, incorrect.
C22_TheQucikFoxx ==
    [][(/\ last'.op = "token"
        /\ stream.string = TheQucikFoxx
        /\ _localeName \in DictionaryFiles
        /\ Ready(_localeName)
        /\ \A w \in {w_The, w_qucik, w_foxx} : NoRuleLists(w))
       => << stream.pos, stream'.pos, last'.word, last'.verdict, last'.ret >>
             \in TheQucikFoxxScan]_vars

\* C22 witness: the pass has reached the end of the line; its last token
\* was "foxx", classified incorrect and flagged, after the separator " ".
C22_Witness ==
    /\ last.op = "token"
    /\ stream.string = TheQucikFoxx
    /\ stream.pos = 14
    /\ _localeName \in DictionaryFiles
    /\ Ready(_localeName)
    /\ \A w \in {w_The, w_qucik, w_foxx} : NoRuleLists(w)
    /\ last.word = w_foxx
    /\ last.verdict = "false"
    /\ last.ret = ErrorStyle
    /\ _lastWordSeparator = << " " >>

\* C23: a token() call made before the end of the line leaves the line as
\* it is, moves the position forward by at least one character and not
\* past the end, whether the gate is open or closed; the position thus
\* bounds the number of calls, and a pass over a line of n characters ends
\* after at most n calls.
C23_TokenAdvances ==
    [][last'.op = "token"
       => /\ stream.pos < Len(stream.string)
          /\ stream'.string = stream.string
          /\ stream'.pos > stream.pos
          /\ stream'.pos <= Len(stream.string)
          /\ ~_initialized => stream'.pos = Len(stream.string)]_vars

\* C23 witness: with the gate open a pass has reached the end of its line
\* with a word of several characters, after a separator.
C23_Witness ==
    /\ last.op = "token"
    /\ _initialized
    /\ stream.string # << >>
    /\ stream.pos = Len(stream.string)
    /\ Len(last.word) > 1
    /\ Len(last.word) < Len(stream.string)
    /\ _lastWordSeparator # << >>

\* C24: while the gate is closed, token() skips to the end of the line,
\* returns no style, asks neither DictionaryManager.check nor
\* UtilityManager.shouldIgnore and starts no load: registry and reads stay
\* as they are.
C24_ClosedGateSkipsLine ==
    [][(last'.op = "token" /\ ~_initialized)
       => /\ stream'.pos = Len(stream.string)
          /\ last'.ret = NULL
          /\ last'.checked = << >>
          /\ last'.ignored = << >>
          /\ last'.consulted = << >>
          /\ last'.loadCalls = << >>
          /\ last'.started = << >>
          /\ last'.out = << >>
          /\ _dictionaries' = _dictionaries
          /\ _dictionariesBeingLoaded' = _dictionariesBeingLoaded
          /\ pendingReads' = pendingReads
          /\ ~_initialized']_vars

\* C24 witness: the active locale is being loaded, the gate is closed, and
\* token() has skipped a line of several words from its start.
C24_Witness ==
    /\ last.op = "token"
    /\ ~_initialized
    /\ _localeName \in _dictionariesBeingLoaded
    /\ stream.string = TheQucikFoxx
    /\ stream.pos = Len(stream.string)
    /\ last.word = << >>
    /\ last.ret = NULL

\* The words of the always-ignore set: the cached list and the ignore
\* lists of the utility files loaded without a condition.
AlwaysIgnored(word) ==
    \/ Has(_alwaysIgnoreCachedList, word)
    \/ \E i \in DOMAIN _alwaysIgnoreFiles :
          Has(_alwaysIgnoreFiles[i].ignore, word)

\* C25: shouldIgnore answers false for a word outside the always-ignore
\* set when beforeContext is the empty string or null, whatever
\* conditional files are loaded, whatever the mode and the document.
C25_EmptyContextIsNotIgnored ==
    (/\ last.op \in {"shouldIgnore", "shouldIgnoreNull"}
     /\ last.ignored[1][2] = << >>
     /\ ~AlwaysIgnored(last.ignored[1][1]))
    => (last.ret = "false" /\ last.ignored[1][3] = FALSE)

\* C25 witness: the html rule is loaded, the mode is html and the document
\* holds "<?", so the rule would apply to "colour" after a separator;
\* shouldIgnore("colour", "") has answered false.
C25_Witness ==
    /\ last.op = "shouldIgnore"
    /\ last.ignored = << << w_colour, << >>, FALSE >> >>
    /\ Has(_ignoreOnlyWithCondition, u_html)
    /\ _currentModeName = "html"
    /\ ~_currentDocumentContents.isNull
    /\ shouldIgnore(w_colour, << " " >>)

\* The locales a check on loc looks up: the items of the profile of that
\* name, or loc itself.
CheckTargets(loc) ==
    IF hasProfile(loc)
    THEN {_availableProfiles[loc][i].name :
             i \in DictionaryItems(_availableProfiles[loc])}
    ELSE {loc}

\* C26: a check on a locale or profile none of whose lexicons is Ready
\* returns at once, raises nothing, answers null (Indeterminate) and has
\* every such locale in the course of being loaded; and once
\* dictionaryLoaded(L) has been triggered, a check on L answers true or
\* false.
C26_NotReadyCheckIsIndeterminateAndLoads ==
    /\ (/\ last.op = "check"
        /\ \A n \in CheckTargets(_defaultLocale) : ~Ready(n))
       => /\ ~last.threw
          /\ last.ret = NULL
          /\ CheckTargets(_defaultLocale) \subseteq _dictionariesBeingLoaded
    /\ \A n \in DictionaryFiles :
          (last.op \in Halves /\ last.out = << << "dictionaryLoaded", n >> >>)
          => \A w \in CheckWords : check(Cur, w, n).ret \in {"true", "false"}

\* C27: a read callback that arrives for a locale, whatever was unloaded
\* while its load was under way, raises nothing, and leaves the registry
\* consistent: a locale without an entry and without a read under way is
\* not marked as being loaded, and an entry is initialized only with both
\* halves and its handle.
C27_CallbacksAfterUnloadAreHarmless ==
    /\ last.op \in Halves => ~last.threw
    /\ \A n \in DictionaryFiles :
          (/\ n \notin DOMAIN _dictionaries
           /\ \A h \in Halves : pendingReads[<< n, h >>] = 0)
          => n \notin _dictionariesBeingLoaded
    /\ C15_ReadyIffBothHalvesAndHandle

\* Whether the registry a listener found reflects the notification.
ReflectsNotification(f) ==
    CASE f.event = "dictionaryLoaded" ->
             f.entry /\ f.initialized /\ ~f.beingLoaded
      [] f.event \in {"dictionaryUnloaded", "dictionaryFailedToLoad"} ->
             ~f.entry /\ ~f.beingLoaded
      [] f.event = "dictionariesUnloaded" -> f.entries = 0
      [] OTHER -> TRUE

\* C28: the listeners of a registry notification find the registry as the
\* notification says: at dictionaryLoaded(L) L is initialized and not
\* marked as being loaded, at dictionaryUnloaded(L) and
\* dictionaryFailedToLoad(L) L has no entry and is not marked as being
\* loaded, at dictionariesUnloaded there is no entry; and no entry becomes
\* initialized or leaves the registry in an operation that does not
\* trigger its notification.
C28_NotificationsReflectRegistry ==
    /\ [](\A i \in DOMAIN last.seen : ReflectsNotification(last.seen[i]))
    /\ [][\A n \in DictionaryFiles :
            /\ (~Ready(n) /\ hasDictionary(_dictionaries', n, TRUE))
                  => << "dictionaryLoaded", n >> \in Range(last'.out)
            /\ (n \in DOMAIN _dictionaries /\ n \notin DOMAIN _dictionaries')
                  => \/ << "dictionaryUnloaded", n >> \in Range(last'.out)
                     \/ << "dictionariesUnloaded", UNDEFINED >>
                           \in Range(last'.out)]_vars

\* ignoreAfter, resp. ignoreWhenDocumentContains, is configured in the rule.
HasIgnoreAfter(rule) ==
    hasOwnProperty(rule, "ignoreAfter") /\ Len(rule.ignoreAfter) > 0

HasDocumentCondition(rule) ==
    /\ hasOwnProperty(rule, "ignoreWhenDocumentContains")
    /\ Len(rule.ignoreWhenDocumentContains) > 0

\* The rule's mode set matches the active mode and the rule is not
\* restricted to manual activation.
IsActiveRule(rule) ==
    /\ hasOwnProperty(rule, "ignoreMode")
    /\ Len(rule.ignoreMode) > 0
    /\ \E i \in DOMAIN rule.ignoreMode :
          rule.ignoreMode[i] \in {"Mode.all", _currentModeName}
    /\ ~("mustBeManuallyLoaded" \in DOMAIN rule /\ rule.mustBeManuallyLoaded)

\* The ignoreAfter leg: the rule's ignoreAfter is the whole beforeContext
\* and the word is in its ignore list.
AfterLeg(rule, word, beforeContext) ==
    /\ HasIgnoreAfter(rule)
    /\ rule.ignoreAfter = beforeContext
    /\ Has(rule.ignore, word)

\* The document holds one of the substrings the rule names.
DocumentLeg(rule) ==
    /\ HasDocumentCondition(rule)
    /\ ~_currentDocumentContents.isNull
    /\ \E i \in DOMAIN rule.ignoreWhenDocumentContains :
          indexOf(_currentDocumentContents.text,
                  rule.ignoreWhenDocumentContains[i], 0) > -1

\* C29: when shouldIgnore answers true for a word outside the cached list,
\* some conditional rule lists the word and either its ignoreAfter leg
\* holds, or the rule is active and has neither condition configured, or
\* the rule is active and a condition it has configured holds.
C29_ActiveRuleNeedsItsCondition ==
    (/\ last.op = "shouldIgnore"
     /\ last.ret = "true"
     /\ ~Has(_alwaysIgnoreCachedList, last.ignored[1][1]))
    => \E i \in DOMAIN _ignoreOnlyWithCondition :
          LET rule == _ignoreOnlyWithCondition[i]
              word == last.ignored[1][1]
              beforeContext == last.ignored[1][2]
          IN /\ Has(rule.ignore, word)
             /\ \/ AfterLeg(rule, word, beforeContext)
                \/ /\ IsActiveRule(rule)
                   /\ \/ ~HasIgnoreAfter(rule) /\ ~HasDocumentCondition(rule)
                      \/ DocumentLeg(rule)

\* C30: when shouldIgnore answers true for a word outside the cached list
\* that only rules restricted to manual activation, or whose modes do not
\* match, list, then the ignoreAfter leg of some rule holds: its
\* ignoreAfter is the whole beforeContext and it lists the word.
C30_RestrictedRuleOnlyThroughIgnoreAfter ==
    (/\ last.op = "shouldIgnore"
     /\ last.ret = "true"
     /\ ~Has(_alwaysIgnoreCachedList, last.ignored[1][1])
     /\ \A i \in DOMAIN _ignoreOnlyWithCondition :
           Has(_ignoreOnlyWithCondition[i].ignore, last.ignored[1][1])
           => ~IsActiveRule(_ignoreOnlyWithCondition[i]))
    => \E i \in DOMAIN _ignoreOnlyWithCondition :
          AfterLeg(_ignoreOnlyWithCondition[i], last.ignored[1][1],
                   last.ignored[1][2])

\* C30 witness: the manual rule with ignoreAfter "$" is loaded;
\* shouldIgnore("qucik", "$") has answered true, and "qucik" after " " is
\* not ignored.
C30_Witness ==
    /\ last.op = "shouldIgnore"
    /\ last.ignored = << << w_qucik, << "$" >>, TRUE >> >>
    /\ Has(_ignoreOnlyWithCondition, u_manualAfter)
    /\ ~shouldIgnore(w_qucik, << " " >>)

\* A word that ends with an apostrophe, does not start with one and starts
\* with an upper-case letter.
IsPossessive(word) ==
    /\ Len(word) > 1
    /\ word[Len(word)] = "'"
    /\ word[1] # "'"
    /\ IsUpper(word[1])

\* The word without its last character.
BaseWord(word) == SubSeq(word, 1, Len(word) - 1)

\* C31, as stated: with ignore-uppercase enabled, every word that ends with
\* an apostrophe, does not start with one and starts with an upper-case
\* letter gets as its verdict the answer of the dictionary check of the word
\* without the apostrophe, and that check is the only one made.
C31_PossessiveAlwaysDelegates ==
    (/\ last.op = "token"
     /\ last.verdict # UNDEFINED
     /\ _spellingIgnoreUppercase
     /\ IsPossessive(last.word))
    => /\ last.checked = << << BaseWord(last.word), last.verdict >> >>
       /\ last.verdict = check(Cur, BaseWord(last.word), UNDEFINED).ret

\* C31, amended: the same for the words that no earlier rule settles (the
\* word is no common term, no number and is not entirely upper-case): the
\* verdict is the answer of the one dictionary check of the base word; the
\* quote and camel-case heuristics and the check of the full word are not
\* applied.
C31_PossessiveDelegatesToBaseWord ==
    (/\ last.op = "token"
     /\ last.verdict # UNDEFINED
     /\ _spellingIgnoreUppercase
     /\ IsPossessive(last.word)
     /\ ~_isCommonTerm(last.word)
     /\ isNaNparseFloat(last.word)
     /\ last.word # toUpperCase(last.word))
    => /\ last.checked = << << BaseWord(last.word), last.verdict >> >>
       /\ last.verdict = check(Cur, BaseWord(last.word), UNDEFINED).ret

\* C31 witness: with ignore-uppercase enabled and a lexicon that holds
\* "PhD", token() classified "PhD'" as correct after the one check of
\* "PhD" (its camel-case parts were not checked).
C31_Witness ==
    /\ last.op = "token"
    /\ _spellingIgnoreUppercase
    /\ last.word = w_PhDApostrophe
    /\ Ready(_localeName)
    /\ last.checked = << << w_PhD, "true" >> >>
    /\ last.verdict = "true"

\* A word with a single quote at exactly one of its two ends.
IsOneSided(word) ==
    Len(word) >= 2 /\ ((word[1] = "'") # (word[Len(word)] = "'"))

\* The one-sided word without its quote.
Remainder(word) ==
    IF word[1] = "'" THEN Tail(word) ELSE SubSeq(word, 1, Len(word) - 1)

\* No rule of _hasCorrectSpelling that comes before the quote heuristic
\* settles the word.
ReachesQuoteHeuristic(word) ==
    /\ ~_isCommonTerm(word)
    /\ isNaNparseFloat(word)
    /\ _spellingIgnoreUppercase
       => /\ word # toUpperCase(word)
          /\ ~(/\ endsWith(word, << "'", "s" >>)
               /\ SubSeq(word, 1, Len(word) - 2)
                     = toUpperCase(SubSeq(word, 1, Len(word) - 2)))
          /\ ~(/\ word[Len(word)] = "'"
               /\ word[1] # "'"
               /\ toUpperCaseChar(word[1]) = word[1])

\* DictionaryManager.check answers true for every part of the split of the
\* word at its capitals.
AllPartsPass(word) ==
    \A i \in DOMAIN splitByUpperCase(word) :
       check(Cur, splitByUpperCase(word)[i], UNDEFINED).ret = "true"

\* C32: for a word with a quote at one end only, the quote heuristic
\* strips that one character and asks the dictionary about the remainder as
\* a whole, and a true or false answer is the verdict with no other check
\* made; so a camel-case remainder whose parts all pass but which fails as
\* a whole is incorrect, while the same word between two quotes is correct.
C32_OneSidedQuoteChecksRemainderWhole ==
    /\ (/\ last.op = "token"
        /\ last.verdict # UNDEFINED
        /\ IsOneSided(last.word)
        /\ ReachesQuoteHeuristic(last.word))
       => /\ Len(last.checked) >= 1
          /\ last.checked[1][1] = Remainder(last.word)
          /\ last.checked[1][2]
                = check(Cur, Remainder(last.word), UNDEFINED).ret
          /\ last.checked[1][2] \in {"true", "false"}
             => /\ Len(last.checked) = 1
                /\ last.verdict = last.checked[1][2]
          /\ (/\ isCamelCase(Remainder(last.word))
              /\ AllPartsPass(Remainder(last.word))
              /\ check(Cur, Remainder(last.word), UNDEFINED).ret = "false")
             => last.verdict = "false"
    /\ (/\ last.op = "token"
        /\ last.verdict # UNDEFINED
        /\ IsQuoted(last.word)
        /\ ReachesQuoteHeuristic(last.word)
        /\ isCamelCase(trimChar(last.word, "'"))
        /\ AllPartsPass(trimChar(last.word, "'")))
       => last.verdict = "true"

\* C32 witness: the active lexicon holds "the" and "May" and not "theMay";
\* token() classified "'theMay" as incorrect after the one check of
\* "theMay".
C32_Witness ==
    /\ last.op = "token"
    /\ last.word = QuoteBefore(w_theMay)
    /\ Ready(_localeName)
    /\ isCamelCase(w_theMay)
    /\ AllPartsPass(w_theMay)
    /\ last.checked = << << w_theMay, "false" >> >>
    /\ last.verdict = "false"

\* The separators that end at position p of the string: the longest run of
\* separator characters among its first p characters that reaches p.
RunBefore(string, p) ==
    LET words == {i \in 1..p : ~isWordSeparator(string[i])}
    IN IF words = {} THEN SubSeq(string, 1, p)
       ELSE SubSeq(string, (CHOOSE i \in words : \A j \in words : j <= i) + 1,
                   p)

\* The number of characters of the stream before the word token() has
\* just cut out.
WordStart == stream.pos - Len(last.word)

\* What C33 asks of one call of token(): the run is cleared when the call
\* finds it marked dirty and at no other time, grows by the separator the
\* call consumes, and is marked dirty exactly when the call emits a word.
TokenKeepsSeparatorRun ==
    (last'.op = "token")
    => /\ _lastWordSeparator'
             = IF _initialized /\ isWordSeparator(peek(stream))
               THEN Append(IF _lastWordSeparatorDirty THEN << >>
                           ELSE _lastWordSeparator, peek(stream))
               ELSE IF _lastWordSeparatorDirty THEN << >>
                    ELSE _lastWordSeparator
       /\ _lastWordSeparatorDirty' = (last'.verdict # UNDEFINED)
       /\ (last'.verdict # UNDEFINED)
             = (_initialized /\ ~isWordSeparator(peek(stream)))

\* C33: in a stream scanned from its start with the gate open and no
\* separators left over at the start, the run of separators each word is
\* classified with, and the beforeContext handed to shouldIgnore, is the
\* full run of separators between the previous word (or the start of the
\* stream) and the word; the run is cleared once per emitted word, at the
\* first call of token() after it.
C33_BeforeContextIsTheSeparatorRun ==
    /\ []((/\ last.op = "token"
           /\ last.verdict # UNDEFINED
           /\ stream.carried = << >>)
          => /\ _lastWordSeparator = RunBefore(stream.string, WordStart)
             /\ \A i \in DOMAIN last.ignored :
                   /\ last.ignored[i][1] = last.word
                   /\ last.ignored[i][2] = RunBefore(stream.string, WordStart))
    /\ [][TokenKeepsSeparatorRun]_vars

\* C33 witness: in the line "$color, alice", scanned from a clean start,
\* shouldIgnore was asked about "alice" with the two separators before it.
C33_Witness ==
    /\ last.op = "token"
    /\ stream.carried = << >>
    /\ last.word = w_alice
    /\ WordStart = 8
    /\ last.ignored = << << w_alice, << ",", " " >>, TRUE >> >>
    /\ _lastWordSeparatorDirty

\* C34: the scanner state is reset across scans: the first word of every
\* stream is classified with the separators of its own stream only, those
\* between the start of the stream and the word, whatever was scanned
\* before.
C34_ScannerStateIsResetAcrossScans ==
    (/\ last.op = "token"
     /\ last.verdict # UNDEFINED
     /\ RunBefore(stream.string, WordStart)
           = SubSeq(stream.string, 1, WordStart))
    => /\ _lastWordSeparator = SubSeq(stream.string, 1, WordStart)
       /\ \A i \in DOMAIN last.ignored :
             last.ignored[i][2] = SubSeq(stream.string, 1, WordStart)

\* A profile file the ProfileManager can use: it parses and lists items.
IsUsableProfile(file) ==
    file.parses /\ file.hasItems /\ Len(file.items) > 0

\* C35: once the read of every profile file has completed, the
\* ProfileManager is initialized and has emitted userProfilesLoaded with
\* the last read; a file that does not parse or has no items is no known
\* profile, and every usable file whose read succeeded is one.
C35_MalformedProfileIsSkipped ==
    (DOMAIN _profile # {} /\ profileReads = {})
    => /\ pm_initialized
       /\ last.op = "profileRead"
          => last.out = << << "userProfilesLoaded", UNDEFINED >> >>
       /\ \A f \in DOMAIN _profile :
             /\ ~IsUsableProfile(f) => ~hasProfile(f.profile)
             /\ (IsUsableProfile(f) /\ _profile[f] # "rejected")
                => /\ hasProfile(f.profile)
                   /\ getProfileItems(f.profile).items
                         = withDefaultType(f.items)

\* A utility file that is no ignore rule: its text is no JSON, or the
\* object has no ignore list.
IsMalformedRule(data) ==
    ~JSONparses(data) \/ ~hasOwnProperty(data, "ignore")

\* C36: a utility file that does not parse or has no ignore list is in
\* neither the unconditional nor the conditional bucket, and no call of
\* shouldIgnore ends with an exception.
C36_MalformedIgnoreRuleIsSkipped ==
    /\ \A i \in DOMAIN _alwaysIgnoreFiles :
          ~IsMalformedRule(_alwaysIgnoreFiles[i])
    /\ \A i \in DOMAIN _ignoreOnlyWithCondition :
          ~IsMalformedRule(_ignoreOnlyWithCondition[i])
    /\ last.op = "shouldIgnore" => ~last.threw

\* C37: whenever loadDictionary(L) is called for a locale with dictionary
\* files that has no registry entry (as after unloadDictionary(L) or
\* unloadAllDictionaries(), also when L was being loaded at that time), the
\* call starts a new load: it creates a Loading entry and starts the read
\* of both halves.
C37_LoadAfterUnloadStartsNewLoad ==
    [][(/\ last'.op = "loadDictionary"
        /\ last'.name \in DictionaryFiles
        /\ last'.name \notin DOMAIN _dictionaries)
       => /\ last'.name \in DOMAIN _dictionaries'
          /\ ~_dictionaries'[last'.name].initialized
          /\ last'.started = << last'.name >>
          /\ \A h \in Halves :
                pendingReads'[<< last'.name, h >>]
                   = pendingReads[<< last'.name, h >>] + 1]_vars

\* C38: once setLocaleName has been called with the profile "my_en" (its
\* dictionary files are readable) while the registry holds no entry, the
\* repeated scan of the document leads to a state where a dictionary of the
\* profile is Ready and token() has classified a word, unless the host has
\* selected another locale in the meantime.
C38_ProfileIsLoadedLazily ==
    (/\ last.op = "setLocaleName"
     /\ last.name = "my_en"
     /\ DOMAIN _dictionaries = {})
    ~> (\/ _localeName # "my_en"
        \/ /\ \E i \in DOMAIN ProfileFiles.my_en :
                 Ready(ProfileFiles.my_en[i].name)
           /\ last.op = "token"
           /\ last.verdict # UNDEFINED)

\* C39: whenever the classifier's _initialized flag is true, the registry
\* holds at least one entry that is Ready; entries that are still loading
\* do not count.
C39_GateOpenOnlyWithReadyLexicon ==
    _initialized => \E n \in DOMAIN _dictionaries : Ready(n)

\* A character of the string _wordSeparators.
IsSeparatorCharacter(c) == \E i \in DOMAIN _wordSeparators : _wordSeparators[i] = c

\* The position in the line where the word that token() classified starts.
ScannedWordStart == stream.pos - Len(last.word)

\* C40: every word that token() has passed to classification is not empty,
\* holds no separator character, is the text of the line that ends at the
\* stream position, and is maximal: a separator or the start of the line is
\* before it, a separator or the end of the line after it. No such word
\* holds the double quote.
C40_ScannedWordIsMaximalAndSeparatorFree ==
    (last.op = "token" /\ last.verdict # UNDEFINED)
    => /\ Len(last.word) > 0
       /\ \A i \in DOMAIN last.word : ~IsSeparatorCharacter(last.word[i])
       /\ ScannedWordStart >= 0
       /\ last.word = SubSeq(stream.string, ScannedWordStart + 1, stream.pos)
       /\ \/ ScannedWordStart = 0
          \/ IsSeparatorCharacter(stream.string[ScannedWordStart])
       /\ \/ stream.pos = Len(stream.string)
          \/ IsSeparatorCharacter(stream.string[stream.pos + 1])
       /\ \A i \in DOMAIN last.word : last.word[i] # "\""

\* token() has classified the word between the two double quotes.
C40_Witness ==
    /\ last.op = "token"
    /\ last.verdict # UNDEFINED
    /\ stream.string = TheInDoubleQuotes
    /\ last.word = w_the
    /\ stream.pos = 4

====
